---- MODULE Spec2Model ----
(***************************************************************************)
(* HTTP/2 frame splitter (http2_stream_splitter_impl.cc): implement_scan,  *)
(* data_scan, non_data_scan, validate_preface and implement_reassemble for *)
(* one direction (source_id) of one flow, driven by a stream layer that    *)
(* delivers the wire bytes in chunks of any size.                          *)
(***************************************************************************)
EXTENDS Integers, Sequences, FiniteSets, TLC

\* ------------------------------------------------------------------ bounds
\* frames the peer sends: non-DATA frames, frames after the preface, frames
\* of a run with DATA frames
MaxFrames == 3
MaxClientFrames == 2
MaxDataFrames == 3
\* frames of a run whose PDUs are reassembled in pieces
MaxReasmFrames == 2
\* largest chunk the stream layer hands to scan in one call
MaxChunk == 26
MaxDataChunk == 13
\* a new frame is put on the wire only while fewer bytes than this are unread
MaxWire == 12
\* zero-length scan calls in one run
MaxEmpty == 1
\* frames sent with their payload in full
MaxLongFrames == 2
\* the short segments at the start of a PDU of long frames: up to this size
\* and this many bytes in all
MaxLongChunk == 10
\* frames of a byte stream that is fixed from the start
MaxSegFrames == 2
\* tokens of a PDF input with stream bodies
MaxJsTokens == 15
\* pieces of the content of a hexadecimal string
MaxHexPieces == 3
\* runs of the periodic epoch handler, bytes a thread deallocates in all and
\* between two free_space calls, calls of the pruner
MaxEpochs == 3
MaxDeallocated == 4
MaxFreed == 2
MaxReaps == 3
\* tokens of a run that exercises the start-condition stack
MaxStackTokens == 14
\* bytes of a frame left to be inspected
MaxLeftover == 1
\* bytes fed to the UTF-16 automaton in one run
MaxU16Bytes == 4
\* tokens of PDF dictionaries lexed in one run
MaxDictTokens == 8
\* tokens of PDF objects with streams lexed in one run
MaxStreamTokens == 12

\* --------------------------------------------------------- wire constants
FRAME_HEADER_LENGTH == 9
MAX_OCTETS == 63780
preface_length == 24
FT_DATA == 0
FT_HEADERS == 1
FT_SETTINGS == 4
FT_PUSH_PROMISE == 5
FT_CONTINUATION == 9
END_STREAM == 1
END_HEADERS == 4
PADDED == 8

SRC_CLIENT == 0
SRC_SERVER == 1

\* "PRI * HTTP/2.0\r\n\r\nSM\r\n\r\n"
connection_prefix ==
    << 80, 82, 73, 32, 42, 32, 72, 84, 84, 80, 47, 50, 46, 48,
       13, 10, 13, 10, 83, 77, 13, 10, 13, 10 >>

\* ----------------------------------------------------------------- helpers
Min(a, b) == IF a < b THEN a ELSE b

\* flags & bit, for a one-bit mask
HasFlag(flags, bit) == (flags \div bit) % 2 = 1

\* uint32_t values: TLC's integers are 32 bits wide and signed, so a uint32_t
\* value v >= 2^31 (the result of a subtraction that wrapped) is written as
\* v - 2^32.  Sums and differences are then the plain ones, and the unsigned
\* order is UGt.
UGt(a, b) == IF (a < 0) = (b < 0) THEN a > b ELSE a < 0

Take(s, n) == SubSeq(s, 1, Min(n, Len(s)))
Drop(s, n) == SubSeq(s, Min(n, Len(s)) + 1, Len(s))

\* http2_utils: fields of a 9-byte frame header
get_frame_length(h) == h[1] * 65536 + h[2] * 256 + h[3]
get_frame_type(h) == h[4]
get_frame_flags(h) == h[5]
get_stream_id(h) == (h[6] % 128) * 16777216 + h[7] * 65536 + h[8] * 256 + h[9]

\* ------------------------------------------------------------------- state
VARIABLES
    source_id,      \* the direction this state belongs to
    session_data,   \* Http2FlowData fields of that direction
    wire,           \* bytes sent by the peer that scan has not consumed yet
    buffered,       \* bytes scanned with Search since the last flush
    pdu,            \* flushed bytes still to be passed to reassemble
    pdu_total,      \* length of the PDU being reassembled
    pdu_offset,     \* bytes of that PDU already reassembled
    call,           \* result of the last scan / reassemble call
    aborted,        \* scan returned Abort: the direction is torn down
    sent,           \* what the peer has sent so far
    acct,           \* the stream layer's byte accounting
    tokenizer,      \* the PDFTokenizer object: its members, the start
                    \* condition stack and the output stream
    lexed,          \* what the last step of the tokenizer was given and returned
    build,          \* declarations of pdf_tokenizer.h the sources do not show
    memory_cap      \* memory_cap.cc: the statics, one packet thread's
                    \* thread-locals and counts, and what the last call did

pdf_vars == << tokenizer, lexed, build >>

h2_vars == << source_id, session_data, wire, buffered, pdu, pdu_total,
              pdu_offset, call, aborted, sent, acct >>

vars == << source_id, session_data, wire, buffered, pdu, pdu_total,
           pdu_offset, call, aborted, sent, acct, tokenizer, lexed, build,
           memory_cap >>

\* ------------------------------------------------------------- MemoryCap
\* setup: limit = config.cap * config.threshold / 100
limit_of(cap, threshold) == (cap * threshold) \div 100

\* epoch_check: the periodic handler; epoch and total are what
\* heap->get_process_total returns
epoch_check(m, epoch, total) ==
    [m EXCEPT !.current_epoch = epoch,
              !.over_limit = (m.limit # 0 /\ total > m.limit),
              !.mc.max_in_use = IF total > @ THEN total ELSE @,
              !.mc.cur_in_use = total,
              !.mc.epochs = @ + 1]

\* thread_init
thread_init(m) == [m EXCEPT !.start_dealloc = 0, !.start_epoch = 0]

\* free_space up to the pruner: a cycle is started if none is on
start_cycle(m) ==
    IF m.start_dealloc = 0
    THEN [m EXCEPT !.start_dealloc = m.mc.deallocated,
                   !.last_dealloc = m.mc.deallocated,
                   !.start_epoch = m.current_epoch,
                   !.mc.reap_cycles = @ + 1]
    ELSE m
add_pruned(m) ==
    [m EXCEPT !.mc.pruned = @ + (m.mc.deallocated - m.last_dealloc),
              !.last_dealloc = m.mc.deallocated]
\* the pruner is called; ok is what it returns
prune(m, ok) ==
    [m EXCEPT !.mc.reap_attempts = @ + 1,
              !.mc.reap_failures = IF ok THEN @ ELSE @ + 1]

\* free_space; allocated and deallocated are what heap->get_thread_allocs
\* returns, ok what the pruner returns if it is called.  The result: the
\* statics after the call and the way the call left: "idle" (line 168),
\* "same_epoch" (173), "ended" (186), "pruned" (the pruner was called).
free_space(m, allocated, deallocated, ok) ==
    LET m0 == [m EXCEPT !.mc.allocated = allocated, !.mc.deallocated = deallocated]
        m1 == add_pruned(start_cycle(m0))
    IN IF ~m0.over_limit /\ m0.start_dealloc = 0
       THEN [m |-> m0, path |-> "idle"]
       ELSE IF m0.start_dealloc = 0 /\ m0.current_epoch = m0.start_epoch
       THEN [m |-> m0, path |-> "same_epoch"]
       ELSE IF m1.mc.deallocated - m1.start_dealloc >= m1.prune_target
       THEN [m |-> [m1 EXCEPT !.start_dealloc = 0], path |-> "ended"]
       ELSE [m |-> prune(m1, ok), path |-> "pruned"]

\* the statics as the file defines them; last: the last call; cycle: whether
\* a reap cycle has been started (reap_cycles counted) and has not ended
\* (line 185), the epoch it was started in (-1: no cycle yet) and the
\* deallocated count it was started at
NoMemoryCap ==
    [ limit |-> 0, prune_target |-> 0, over_limit |-> FALSE, current_epoch |-> 0,
      last_dealloc |-> 0, start_dealloc |-> 0, start_epoch |-> 0,
      mc |-> [allocated |-> 0, deallocated |-> 0, pruned |-> 0, reap_cycles |-> 0,
              reap_attempts |-> 0, reap_failures |-> 0, epochs |-> 0,
              cur_in_use |-> 0, max_in_use |-> 0, start_up_use |-> 0],
      last |-> [op |-> "none"],
      cycle |-> [on |-> FALSE, epoch |-> -1, start |-> 0] ]


\* --------------------------------------------------------- validate_preface
\* a faulty variant: every chunk is compared with the start of the preface
validate_preface_from_start(data, octets_seen) ==
    LET length == Len(data)
        count == IF octets_seen + length < preface_length
                 THEN length ELSE preface_length - octets_seen
    IN IF \E i \in 1..count : data[i] # connection_prefix[i]
       THEN "V_BAD"
       ELSE IF octets_seen + length < preface_length THEN "V_TBD" ELSE "V_GOOD"

\* a faulty variant: a complete preface is not recognised as complete
validate_preface_tbd(data, octets_seen) ==
    LET length == Len(data)
        count == IF octets_seen + length < preface_length
                 THEN length ELSE preface_length - octets_seen
    IN IF \E i \in 1..count : data[i] # connection_prefix[octets_seen + i]
       THEN "V_BAD"
       ELSE "V_TBD"

validate_preface(data, octets_seen) ==
    LET length == Len(data)
        count == IF octets_seen + length < preface_length
                 THEN length ELSE preface_length - octets_seen
    IN IF \E i \in 1..count : data[i] # connection_prefix[octets_seen + i]
       THEN "V_BAD"
       ELSE IF octets_seen + length < preface_length THEN "V_TBD" ELSE "V_GOOD"

\* what a scan helper hands back: the updated state, the status, the two
\* cursors it writes through its reference parameters, and whether the frame
\* went to the data cutter
ScanRet(sd, status, flush_offset, data_offset) ==
    [sd |-> sd, status |-> status, flush_offset |-> flush_offset,
     data_offset |-> data_offset, cut |-> FALSE]

\* ------------------------------------------------------------ non_data_scan
\* a faulty variant: the comparison of the type is the wrong way round
missing_continuation_inverted(continuation_expected, type) ==
    continuation_expected /\ type = FT_CONTINUATION

\* a CONTINUATION was expected and this frame is none
missing_continuation(continuation_expected, type) ==
    continuation_expected /\ type # FT_CONTINUATION

\* a faulty variant: the header is left out of the sum
frame_too_long_payload(frame_length) ==
    frame_length > MAX_OCTETS

\* the frame with its header does not fit in MAX_OCTETS
frame_too_long(frame_length) ==
    frame_length + FRAME_HEADER_LENGTH > MAX_OCTETS

\* a faulty variant: HEADERS is flushed whatever its flags
frame_status_eager(type, frame_flags, continuation_expected) ==
    IF type = FT_CONTINUATION
    THEN IF continuation_expected
         THEN IF ~HasFlag(frame_flags, END_HEADERS) THEN "SEARCH" ELSE "FLUSH"
         ELSE "ABORT"
    ELSE "FLUSH"

\* a faulty variant: a CONTINUATION nobody expected is flushed
frame_status_lenient(type, frame_flags, continuation_expected) ==
    IF type = FT_HEADERS
    THEN IF ~HasFlag(frame_flags, END_HEADERS) THEN "SEARCH" ELSE "FLUSH"
    ELSE IF type = FT_CONTINUATION /\ continuation_expected
    THEN IF ~HasFlag(frame_flags, END_HEADERS) THEN "SEARCH" ELSE "FLUSH"
    ELSE "FLUSH"

\* a faulty variant: PUSH_PROMISE waits for END_HEADERS as HEADERS does
frame_status_promise(type, frame_flags, continuation_expected) ==
    IF type = FT_HEADERS \/ type = FT_PUSH_PROMISE
    THEN IF ~HasFlag(frame_flags, END_HEADERS) THEN "SEARCH" ELSE "FLUSH"
    ELSE IF type = FT_CONTINUATION
    THEN IF continuation_expected
         THEN IF ~HasFlag(frame_flags, END_HEADERS) THEN "SEARCH" ELSE "FLUSH"
         ELSE "ABORT"
    ELSE "FLUSH"

\* the switch on the type of a full frame: the status it yields
frame_status(type, frame_flags, continuation_expected) ==
    IF type = FT_HEADERS
    THEN IF ~HasFlag(frame_flags, END_HEADERS) THEN "SEARCH" ELSE "FLUSH"
    ELSE IF type = FT_CONTINUATION
    THEN IF continuation_expected
         THEN IF ~HasFlag(frame_flags, END_HEADERS) THEN "SEARCH" ELSE "FLUSH"
         ELSE "ABORT"
    ELSE "FLUSH"

\* the same switch: continuation_expected after the frame
frame_continuation(type, frame_flags, continuation_expected) ==
    IF type = FT_HEADERS /\ ~HasFlag(frame_flags, END_HEADERS)
    THEN TRUE
    ELSE IF type = FT_CONTINUATION /\ continuation_expected
            /\ HasFlag(frame_flags, END_HEADERS)
    THEN FALSE
    ELSE continuation_expected

non_data_scan(sd, length, flush_offset, frame_length, type, frame_flags, data_offset) ==
    IF sd.data_processing
    THEN ScanRet(sd, "ABORT", flush_offset, data_offset)
    ELSE IF sd.scan_remaining_frame_octets = 0
            /\ missing_continuation(sd.continuation_expected, type)
    THEN ScanRet([sd EXCEPT !.infractions = @ \cup {"INF_MISSING_CONTINUATION"},
                            !.events = @ \cup {"EVENT_MISSING_CONTINUATION"}],
                 "ABORT", flush_offset, data_offset)
    ELSE IF sd.scan_remaining_frame_octets = 0 /\ frame_too_long(frame_length)
    THEN ScanRet(sd, "ABORT", flush_offset, data_offset)
    ELSE
    LET sd1 == IF sd.scan_remaining_frame_octets = 0
               THEN [sd EXCEPT !.scan_remaining_frame_octets = frame_length,
                               !.total_bytes_in_split =
                                   @ + FRAME_HEADER_LENGTH + frame_length]
               ELSE sd
    IN IF length - data_offset < sd1.scan_remaining_frame_octets
       THEN \* not the full frame yet
            ScanRet([sd1 EXCEPT !.scan_remaining_frame_octets = @ - (length - data_offset)],
                    "SEARCH", flush_offset, length)
       ELSE \* have the full frame
            LET status == frame_status(type, frame_flags, sd1.continuation_expected)
                off == data_offset + sd1.scan_remaining_frame_octets
                sd2 == [sd1 EXCEPT
                          !.continuation_expected =
                              frame_continuation(type, frame_flags, @),
                          !.infractions = IF status = "ABORT"
                              THEN @ \cup {"INF_UNEXPECTED_CONTINUATION"} ELSE @,
                          !.events = IF status = "ABORT"
                              THEN @ \cup {"EVENT_UNEXPECTED_CONTINUATION"} ELSE @,
                          !.scan_octets_seen = 0,
                          !.scan_remaining_frame_octets = 0]
            IN ScanRet(sd2, status, off, off)

\* ------------------------------------------------------ Http2DataCutter::scan
\* The per-stream cutter consumes the payload of the DATA frame.  Once the
\* frame is complete the HTTP splitter it feeds either flushes the body
\* (hi_flush) or wants more of it; data_processing marks a DATA frame that was
\* scanned and not flushed.
data_cutter_scan(sd, length, flush_offset, data_offset, frame_length, new_frame, hi_flush) ==
    LET left == IF new_frame THEN frame_length ELSE sd.cutter_octets_left
        take == Min(length - data_offset, left)
        off == data_offset + take
        sd1 == [sd EXCEPT !.cutter_octets_left = 0,
                          !.mid_data_frame = FALSE,
                          !.scan_octets_seen = 0,
                          !.data_processing = ~hi_flush]
    IN [ IF left - take > 0
         THEN ScanRet([sd EXCEPT !.cutter_octets_left = left - take,
                                 !.mid_data_frame = TRUE],
                      "SEARCH", flush_offset, off)
         ELSE IF hi_flush THEN ScanRet(sd1, "FLUSH", off, off)
         ELSE ScanRet(sd1, "SEARCH", flush_offset, off)
       EXCEPT !.cut = TRUE ]

\* ---------------------------------------------------------------- data_scan
\* a faulty variant: a DATA frame of any length goes to the cutter
data_scan_no_upper(sd, length, flush_offset, frame_length, frame_flags, data_offset, env) ==
    IF ~env.stream \/ ~env.http_flow \/ (frame_length > 0 /\ ~env.body_expected)
    THEN ScanRet([sd EXCEPT !.infractions = @ \cup {"INF_FRAME_SEQUENCE"},
                            !.events = @ \cup {"EVENT_FRAME_SEQUENCE"}],
                 "ABORT", flush_offset, data_offset)
    ELSE IF frame_length = 0
    THEN ScanRet(sd, "ABORT", flush_offset, data_offset)
    ELSE data_cutter_scan(sd, length, flush_offset, data_offset, frame_length,
                          TRUE, env.hi_flush)

\* env: what find_stream, get_hi_flow_data and get_type_expected answer for
\* current_stream, and the HTTP splitter's answer (hi_flush)
data_scan(sd, length, flush_offset, frame_length, frame_flags, data_offset, env) ==
    IF ~env.stream \/ ~env.http_flow \/ (frame_length > 0 /\ ~env.body_expected)
    THEN ScanRet([sd EXCEPT !.infractions = @ \cup {"INF_FRAME_SEQUENCE"},
                            !.events = @ \cup {"EVENT_FRAME_SEQUENCE"}],
                 "ABORT", flush_offset, data_offset)
    ELSE IF frame_length = 0 \/ frame_length > MAX_OCTETS
    THEN ScanRet(sd, "ABORT", flush_offset, data_offset)
    ELSE data_cutter_scan(sd, length, flush_offset, data_offset, frame_length,
                          TRUE, env.hi_flush)

\* ----------------------------------------------------------- implement_scan
\* answers that were not asked for
NoEnv == [stream |-> FALSE, http_flow |-> FALSE, body_expected |-> FALSE,
          hi_flush |-> FALSE]

\* One entry of the per-call log: a frame header that was dispatched, the
\* state it met and what became of it.
LogEntry(sd, r, env) ==
    [type |-> get_frame_type(sd.scan_frame_header),
     flags |-> get_frame_flags(sd.scan_frame_header),
     length |-> get_frame_length(sd.scan_frame_header),
     ce |-> sd.continuation_expected,
     dp |-> sd.data_processing,
     rem |-> sd.scan_remaining_frame_octets,
     tbs |-> sd.total_bytes_in_split,
     events |-> sd.events,
     infractions |-> sd.infractions,
     env |-> IF get_frame_type(sd.scan_frame_header) = FT_DATA THEN env ELSE NoEnv,
     status |-> r.status,
     cut |-> r.cut,
     ce_after |-> r.sd.continuation_expected,
     rem_after |-> r.sd.scan_remaining_frame_octets,
     tbs_after |-> r.sd.total_bytes_in_split,
     events_after |-> r.sd.events,
     infractions_after |-> r.sd.infractions]

\* a faulty variant: every chunk is copied to the start of the header
CopyHeader_restart(hdr, seen, data, data_offset, n) ==
    [i \in 1..FRAME_HEADER_LENGTH |->
        IF i <= n THEN data[data_offset + i] ELSE hdr[i]]

\* the memcpy into scan_frame_header
CopyHeader(hdr, seen, data, data_offset, n) ==
    [i \in 1..FRAME_HEADER_LENGTH |->
        IF i > seen /\ i <= seen + n THEN data[data_offset + (i - seen)] ELSE hdr[i]]

\* one pass of the do-while: the cutter for a DATA frame under way, else
\* header assembly and dispatch
scan_pass(sd, data, data_offset, flush_offset, env, log) ==
    LET length == Len(data) IN
    IF sd.mid_data_frame
    THEN [r |-> data_cutter_scan(sd, length, flush_offset, data_offset, 0,
                                 FALSE, env.hi_flush),
          log |-> log, done |-> FALSE]
    ELSE
    LET sd1 == IF sd.scan_octets_seen = 0
               THEN [sd EXCEPT !.num_frame_headers = @ + 1] ELSE sd
        remaining_header == FRAME_HEADER_LENGTH - sd1.scan_octets_seen
        remaining_header_in_data ==
            IF remaining_header > length - data_offset
            THEN length - data_offset ELSE remaining_header
        sd2 == [sd1 EXCEPT
                  !.scan_frame_header = CopyHeader(@, sd1.scan_octets_seen, data,
                                           data_offset, remaining_header_in_data),
                  !.scan_octets_seen = @ + remaining_header_in_data]
        off == data_offset + remaining_header_in_data
    IN IF sd2.scan_octets_seen < FRAME_HEADER_LENGTH
       THEN [r |-> ScanRet(sd2, "SEARCH", flush_offset, off),
             log |-> log, done |-> TRUE]
       ELSE
       LET frame_length == get_frame_length(sd2.scan_frame_header)
           type == get_frame_type(sd2.scan_frame_header)
           frame_flags == get_frame_flags(sd2.scan_frame_header)
           sd3 == [sd2 EXCEPT !.frame_type = type,
                              !.current_stream =
                                  get_stream_id(sd2.scan_frame_header)]
           r == IF type = FT_DATA
                THEN data_scan(sd3, length, flush_offset, frame_length,
                               frame_flags, off, env)
                ELSE non_data_scan(sd3, length, flush_offset, frame_length,
                                   type, frame_flags, off)
       IN [r |-> r, log |-> Append(log, LogEntry(sd3, r, env)), done |-> FALSE]

RECURSIVE scan_loop(_, _, _, _, _, _)
scan_loop(sd, data, data_offset, flush_offset, env, log) ==
    LET step == scan_pass(sd, data, data_offset, flush_offset, env, log)
    IN IF ~step.done /\ step.r.status = "SEARCH" /\ step.r.data_offset < Len(data)
       THEN scan_loop(step.r.sd, data, step.r.data_offset, step.r.flush_offset,
                      env, step.log)
       ELSE [sd |-> step.r.sd, status |-> step.r.status,
             flush_offset |-> step.r.flush_offset, log |-> step.log]

\* a faulty variant: the whole preface is taken from the last chunk
preface_flush_whole(octets_seen) == preface_length

\* a faulty variant: one byte more than the preface needs
preface_flush_beyond(octets_seen) == preface_length - octets_seen + 1

\* the bytes of the chunk that complete the preface
preface_flush_offset(octets_seen) == preface_length - octets_seen

implement_scan(sd, data, env) ==
    IF sd.preface
    THEN LET v == validate_preface(data, sd.scan_octets_seen)
         IN IF v = "V_GOOD"
            THEN [sd |-> [sd EXCEPT !.preface = FALSE,
                                    !.payload_discard = TRUE,
                                    !.scan_octets_seen = 0],
                  status |-> "FLUSH",
                  flush_offset |-> preface_flush_offset(sd.scan_octets_seen),
                  log |-> << >>]
            ELSE IF v = "V_BAD"
            THEN [sd |-> [sd EXCEPT !.events = @ \cup {"EVENT_PREFACE_MATCH_FAILURE"}],
                  status |-> "ABORT", flush_offset |-> 0, log |-> << >>]
            ELSE [sd |-> [sd EXCEPT !.scan_octets_seen = @ + Len(data)],
                  status |-> "SEARCH", flush_offset |-> 0, log |-> << >>]
    ELSE scan_loop([sd EXCEPT !.octets_before_first_header = 0], data, 0, 0,
                   env, << >>)

\* ------------------------------------------------------ implement_reassemble
\* The do-while of the non-DATA branch, one operator per step of its body; c
\* is the cursor [sd, off]: the state and data_offset.  frame_header and
\* frame_data hold the bytes written so far (their lengths are the two
\* offsets); a write beyond the allocated size is recorded in overrun.

\* read the padding length if necessary
read_padding_len(sd, data, data_offset) ==
    IF sd.get_padding_len
    THEN [sd |-> [sd EXCEPT
                    !.get_padding_len = FALSE,
                    !.padding_octets_in_frame = data[data_offset + 1],
                    !.remaining_frame_octets = @ - 1,
                    !.frame_data_size = @ - (data[data_offset + 1] + 1)],
          off |-> data_offset + 1]
    ELSE [sd |-> sd, off |-> data_offset]

\* the payload octets to copy
payload_to_copy(c, data) ==
    IF UGt(c.sd.remaining_frame_octets - c.sd.padding_octets_in_frame,
           Len(data) - c.off)
    THEN Len(data) - c.off
    ELSE c.sd.remaining_frame_octets - c.sd.padding_octets_in_frame

\* copy n octets of payload into frame_data
copy_payload(c, data, n) ==
    [sd |-> [c.sd EXCEPT
               !.frame_data = @ \o SubSeq(data, c.off + 1, c.off + n),
               !.frame_data_offset = @ + n,
               !.remaining_frame_octets = @ - n,
               !.overrun = @ \/ (n > 0 /\
                   UGt(c.sd.frame_data_offset + n, c.sd.frame_data_size))],
     off |-> c.off + n]

\* skip over any padding
skip_padding(c, data) ==
    LET padding_bytes_to_skip ==
            Min(c.sd.padding_octets_in_frame, Len(data) - c.off)
    IN [sd |-> [c.sd EXCEPT !.remaining_frame_octets = @ - padding_bytes_to_skip],
        off |-> c.off + padding_bytes_to_skip]

\* copy what is there of the next frame header into frame_header
copy_header(c, data) ==
    LET octets_to_copy ==
            Min(FRAME_HEADER_LENGTH -
                    (c.sd.frame_header_offset % FRAME_HEADER_LENGTH),
                Len(data) - c.off)
    IN [sd |-> [c.sd EXCEPT
                  !.frame_header =
                      @ \o SubSeq(data, c.off + 1, c.off + octets_to_copy),
                  !.frame_header_offset = @ + octets_to_copy,
                  !.overrun = @ \/ UGt(c.sd.frame_header_offset + octets_to_copy,
                                       c.sd.frame_header_size)],
        off |-> c.off + octets_to_copy]

\* a header was just completed: parse it and update the frame variables
parse_header(sd) ==
    [sd EXCEPT
       !.remaining_frame_octets =
           get_frame_length(SubSeq(sd.frame_header,
                                   sd.frame_header_offset - FRAME_HEADER_LENGTH + 1,
                                   sd.frame_header_offset)),
       !.get_padding_len =
           IF HasFlag(get_frame_flags(sd.scan_frame_header), PADDED)
           THEN TRUE ELSE @]

RECURSIVE reassemble_loop(_, _, _)
after_header(c, data) ==
    IF c.sd.frame_header_offset % FRAME_HEADER_LENGTH # 0 THEN c.sd
    ELSE IF c.off < Len(data)
    THEN reassemble_loop(parse_header(c.sd), data, c.off)
    ELSE parse_header(c.sd)

after_padding(c, data) ==
    IF c.off = Len(data) THEN c.sd ELSE after_header(copy_header(c, data), data)

after_payload(c, data) ==
    IF c.off = Len(data) THEN c.sd ELSE after_padding(skip_padding(c, data), data)

after_padding_len(c, data) ==
    after_payload(copy_payload(c, data, payload_to_copy(c, data)), data)

reassemble_loop(sd, data, data_offset) ==
    after_padding_len(read_padding_len(sd, data, data_offset), data)

\* Http2DataCutter::reassemble: the cutter hands back the HTTP body it has put
\* together once the frame is complete
data_cutter_reassemble(sd, data, tail) ==
    IF tail
    THEN [sd EXCEPT !.frame_data = << >>, !.frame_data_size = 0]
    ELSE sd

\* the first reassemble() of a PDU: the header buffer
allocate_headers(sd, offset) ==
    IF offset = 0
    THEN [sd EXCEPT !.frame_header_size =
                        FRAME_HEADER_LENGTH * sd.num_frame_headers,
                    !.frame_header = << >>,
                    !.frame_header_offset = 0]
    ELSE sd

\* the first reassemble() of a PDU: the data buffer
allocate_data(sd, total, offset) ==
    IF offset = 0
    THEN [sd EXCEPT !.frame_data_size = total - sd.frame_header_size,
                    !.frame_data = << >>,
                    !.frame_data_offset = 0,
                    !.remaining_frame_octets = sd.octets_before_first_header,
                    !.padding_octets_in_frame = 0]
    ELSE sd

\* frame_type is read from the first header in frame_header; uninit: the
\* value found there when that byte was allocated but never written
set_frame_type(sd, uninit) ==
    [sd EXCEPT !.frame_type = IF Len(sd.frame_header) >= 4
                              THEN get_frame_type(sd.frame_header) ELSE uninit]

\* a faulty variant: the count of frame headers survives the PDU
pdu_tail_keep(sd, tail) ==
    IF tail
    THEN [sd EXCEPT !.total_bytes_in_split = 0,
                    !.scan_octets_seen = 0]
    ELSE sd

\* PKT_PDU_TAIL: the split is over
pdu_tail(sd, tail) ==
    IF tail
    THEN [sd EXCEPT !.total_bytes_in_split = 0,
                    !.num_frame_headers = 0,
                    !.scan_octets_seen = 0]
    ELSE sd

reassemble_frames(sd, total, offset, data, tail, uninit) ==
    IF sd.frame_type = FT_DATA
    THEN data_cutter_reassemble(sd, data, tail)
    ELSE set_frame_type(
             reassemble_loop(allocate_data(sd, total, offset), data, 0), uninit)

implement_reassemble(sd, total, offset, data, tail, uninit) ==
    [sd |-> pdu_tail(reassemble_frames(allocate_headers(sd, offset), total,
                                       offset, data, tail, uninit), tail),
     buf_null |-> ~tail]

\* Http2StreamSplitter::reassemble: the preface is discarded, everything else
\* goes to implement_reassemble
reassemble(sd, total, offset, data, tail, uninit) ==
    IF sd.payload_discard
    THEN [sd |-> IF tail THEN [sd EXCEPT !.payload_discard = FALSE] ELSE sd,
          buf_null |-> TRUE]
    ELSE implement_reassemble(sd, total, offset, data, tail, uninit)


\* ------------------------------------------------------------ what is sent
FrameHeader(len, type, flags, sid) ==
    << len \div 65536, (len \div 256) % 256, len % 256, type, flags, 0, 0, 0, sid >>

\* The frames the peer may send.  The frames with a length near MAX_OCTETS
\* are cut short: their payload never arrives within the bounds.
FrSettings == FrameHeader(0, FT_SETTINGS, 0, 0)
FrHeadersEnd == FrameHeader(2, FT_HEADERS, END_HEADERS, 1) \o << 101, 102 >>
FrHeaders == FrameHeader(1, FT_HEADERS, 0, 1) \o << 103 >>
FrContinuation == FrameHeader(1, FT_CONTINUATION, 0, 1) \o << 104 >>
FrContinuationEnd == FrameHeader(2, FT_CONTINUATION, END_HEADERS, 1) \o << 105, 106 >>
FrPushPromise == FrameHeader(3, FT_PUSH_PROMISE, 0, 1) \o << 0, 0, 2 >>
FrData == FrameHeader(3, FT_DATA, 0, 1) \o << 107, 108, 109 >>
FrDataEmpty == FrameHeader(0, FT_DATA, END_STREAM, 1)
FrMaxNonData ==
    FrameHeader(MAX_OCTETS - FRAME_HEADER_LENGTH, FT_SETTINGS, 0, 0) \o << 110 >>
FrOverNonData ==
    FrameHeader(MAX_OCTETS - FRAME_HEADER_LENGTH + 1, FT_HEADERS, END_HEADERS, 1)
FrOverContinuation ==
    FrameHeader(MAX_OCTETS - FRAME_HEADER_LENGTH + 1, FT_CONTINUATION, END_HEADERS, 1)
FrMaxData == FrameHeader(MAX_OCTETS, FT_DATA, 0, 1) \o << 111 >>
FrOverData == FrameHeader(MAX_OCTETS + 1, FT_DATA, 0, 1)

\* HEADERS frames with the PADDED flag: padded as the flag says (pad length 1,
\* payload 112 113, one byte of padding), without END_HEADERS, with a pad
\* length beyond the frame, and with no payload at all
FrPadded ==
    FrameHeader(4, FT_HEADERS, END_HEADERS + PADDED, 1) \o << 1, 112, 113, 0 >>
FrPaddedOpen ==
    FrameHeader(3, FT_HEADERS, PADDED, 1) \o << 1, 114, 0 >>
FrPadOver ==
    FrameHeader(2, FT_HEADERS, END_HEADERS + PADDED, 1) \o << 5, 115 >>
FrPadEmpty == FrameHeader(0, FT_HEADERS, END_HEADERS + PADDED, 1)

\* what each specification lets the peer send
ClientFrames == { FrSettings, FrHeaders, FrContinuationEnd }
HeaderFrames ==
    { FrSettings, FrHeaders, FrContinuation, FrContinuationEnd, FrPushPromise,
      FrMaxNonData, FrOverNonData, FrOverContinuation }
DataFrames ==
    { FrData, FrDataEmpty, FrMaxData, FrOverData, FrSettings, FrHeaders,
      FrContinuationEnd, FrOverContinuation }

ReasmFrames ==
    { FrHeadersEnd, FrHeaders, FrContinuationEnd, FrPadded, FrPaddedOpen,
      FrPadOver, FrPadEmpty }

\* the connection preface, intact or with one byte changed
BadAt == { 1, 24 }
Prefaces ==
    { connection_prefix } \cup
    { [connection_prefix EXCEPT ![j] = 0] : j \in BadAt }

\* answers of the stream table and the HTTP flow for a DATA frame
Envs ==
    { NoEnv,
      [stream |-> TRUE, http_flow |-> FALSE, body_expected |-> FALSE, hi_flush |-> FALSE],
      [stream |-> TRUE, http_flow |-> TRUE, body_expected |-> FALSE, hi_flush |-> FALSE],
      [stream |-> TRUE, http_flow |-> TRUE, body_expected |-> TRUE, hi_flush |-> FALSE],
      [stream |-> TRUE, http_flow |-> TRUE, body_expected |-> TRUE, hi_flush |-> TRUE] }

\* values an unwritten byte of a fresh buffer may hold
UninitBytes == { FT_DATA, FT_HEADERS }

\* ----------------------------------------------------------- PDF tokenizer
\* PDFTokenizer::PDFRet
EOS == "EOS"
NOT_NAME_IN_DICTIONARY_KEY == "NOT_NAME_IN_DICTIONARY_KEY"
INCOMPLETE_ARRAY_IN_DICTIONARY == "INCOMPLETE_ARRAY_IN_DICTIONARY"
STREAM_NO_LENGTH == "STREAM_NO_LENGTH"
UNEXPECTED_SYMBOL == "UNEXPECTED_SYMBOL"

\* a | b and a & b on non-negative integers
RECURSIVE BitOr(_, _)
BitOr(a, b) ==
    IF a = 0 THEN b
    ELSE IF b = 0 THEN a
    ELSE (IF a % 2 = 1 \/ b % 2 = 1 THEN 1 ELSE 0) + 2 * BitOr(a \div 2, b \div 2)

RECURSIVE BitAnd(_, _)
BitAnd(a, b) ==
    IF a = 0 \/ b = 0 THEN 0
    ELSE (IF a % 2 = 1 /\ b % 2 = 1 THEN 1 ELSE 0) + 2 * BitAnd(a \div 2, b \div 2)

\* a >> n
Shr(a, n) == a \div (2 ^ n)

\* (char)v: the low eight bits
Char(v) == v % 256

\* A value stored into u16_state.high or u16_state.low.  The members are
\* declared in pdf_tokenizer.h; bits is their width there, 16 or 32 (no value
\* computed here reaches 2^31).
Stored(v, bits) == IF bits = 16 THEN v % 65536 ELSE v

\* u16_to_u8: the bytes written to yyout for code.  A code above 0x1fffff
\* fails the assertion; without assertions no branch is taken and the empty
\* string is written.
u16_to_u8(code) ==
    IF code <= 127 THEN << Char(code) >>
    ELSE IF code <= 2047
    THEN << Char(BitOr(192, Shr(code, 6))),
            Char(BitOr(128, BitAnd(code, 63))) >>
    ELSE IF code <= 65535
    THEN << Char(BitOr(224, Shr(code, 12))),
            Char(BitOr(128, BitAnd(Shr(code, 6), 63))),
            Char(BitOr(128, BitAnd(code, 63))) >>
    ELSE IF code <= 2097151
    THEN << Char(BitOr(240, Shr(code, 18))),
            Char(BitOr(128, BitAnd(Shr(code, 12), 63))),
            Char(BitOr(128, BitAnd(Shr(code, 6), 63))),
            Char(BitOr(128, BitAnd(code, 63))) >>
    ELSE << >>

\* what one call of u16_eval leaves: the automaton, the return value and the
\* codes handed to u16_to_u8
U16Ret(st, ret, codes) == [st |-> st, ret |-> ret, codes |-> codes]

\* u16_eval, case 1: the second byte of the first unit
u16_eval_unit(st, bits, byte) ==
    LET high == Stored(BitOr(st.high * 256, byte), bits)
    IN IF high < 55296
       THEN U16Ret([st EXCEPT !.high = high, !.cur_byte = 0], EOS, << high >>)
       ELSE U16Ret([st EXCEPT !.high = Stored((high - 55296) * 1024, bits),
                              !.cur_byte = 2], EOS, << >>)

\* a faulty variant of case 3: a second unit below 0xdc00 is taken as well
u16_eval_low_any(st, bits, byte) ==
    LET low == Stored(BitOr(st.low * 256, byte), bits)
        dec == Stored(low - 56320, bits)
    IN U16Ret([st EXCEPT !.low = dec, !.cur_byte = 0], EOS,
              << BitOr(st.high, dec) + 65536 >>)

\* u16_eval, case 3: the second byte of the second unit
u16_eval_low(st, bits, byte) ==
    LET low == Stored(BitOr(st.low * 256, byte), bits)
    IN IF low < 56320
       THEN U16Ret([st EXCEPT !.low = low, !.cur_byte = 0], UNEXPECTED_SYMBOL, << >>)
       ELSE U16Ret([st EXCEPT !.low = low - 56320, !.cur_byte = 0], EOS,
                   << BitOr(st.high, low - 56320) + 65536 >>)

\* u16_eval(byte) on the automaton st
u16_eval(st, bits, byte) ==
    CASE st.cur_byte = 0 -> U16Ret([st EXCEPT !.high = byte, !.cur_byte = 1], EOS, << >>)
      [] st.cur_byte = 1 -> u16_eval_unit(st, bits, byte)
      [] st.cur_byte = 2 -> U16Ret([st EXCEPT !.low = byte, !.cur_byte = 3], EOS, << >>)
      [] st.cur_byte = 3 -> u16_eval_low(st, bits, byte)

\* the tokenizer as constructed
InitTokenizer ==
    [ yy_start_stack |-> << "INITIAL" >>,
      obj_array |-> [nesting_level |-> 0],
      obj_dictionary |-> [key_value |-> TRUE, array_level |-> 0],
      obj_entry |-> [key |-> ""],
      obj_stream |-> [rem_length |-> -1, is_js |-> FALSE],
      js_stream_refs |-> {},
      u16_state |-> [cur_byte |-> 0, high |-> 0, low |-> 0],
      yyout |-> << >> ]

\* nothing lexed yet
NoLex == [ret |-> EOS, tok |-> "none", yytext |-> "", n |-> 0, fed |-> << >>, codes |-> << >>,
          opened |-> << >>, own |-> 0, before |-> InitTokenizer]

\* flex: yy_push_state, yy_pop_state, YY_START; the last element of
\* yy_start_stack is the current start condition
PUSH(t, x) == [t EXCEPT !.yy_start_stack = Append(@, x)]
POP(t) == [t EXCEPT !.yy_start_stack = SubSeq(@, 1, Len(@) - 1)]
YY_START(t) == t.yy_start_stack[Len(t.yy_start_stack)]

\* what a handler leaves: the tokenizer and the value it returns
PdfRet(t, ret) == [t |-> t, ret |-> ret]

\* ObjectDictionary::clear() is defined in pdf_tokenizer.h: the next token is
\* a key again; clear_level: whether it resets array_level as well
clear(d, clear_level) ==
    [key_value |-> TRUE,
     array_level |-> IF clear_level THEN 0 ELSE d.array_level]

h_dict_open(t, clear_level) ==
    PdfRet([t EXCEPT !.obj_dictionary =
                [clear(@, clear_level) EXCEPT !.array_level = t.obj_array.nesting_level]],
           EOS)

h_dict_close(t, clear_level) ==
    LET d == clear(t.obj_dictionary, clear_level)
    IN PdfRet([t EXCEPT !.obj_dictionary = d],
              IF d.array_level # t.obj_array.nesting_level
              THEN INCOMPLETE_ARRAY_IN_DICTIONARY ELSE EOS)

h_dict_other(t) ==
    IF t.obj_dictionary.array_level # t.obj_array.nesting_level
    THEN PdfRet(t, EOS)
    ELSE IF t.obj_dictionary.key_value
    THEN PdfRet(t, NOT_NAME_IN_DICTIONARY_KEY)
    ELSE PdfRet([t EXCEPT !.obj_dictionary.key_value = ~@], EOS)

h_dict_name(t, yytext) ==
    IF t.obj_dictionary.array_level # t.obj_array.nesting_level
    THEN PdfRet(t, EOS)
    ELSE PdfRet([t EXCEPT !.obj_entry.key = IF t.obj_dictionary.key_value
                                            THEN yytext ELSE @,
                          !.obj_dictionary.key_value = ~@], EOS)

\* a faulty variant: the stream is opened whatever the length
h_stream_open_any(t) == PdfRet(t, EOS)

h_stream_open(t) ==
    IF t.obj_stream.rem_length < 0
    THEN PdfRet(t, STREAM_NO_LENGTH)
    ELSE PdfRet(t, EOS)

\* atoi(yytext) of the integer token is value
h_stream_length(t, value) ==
    IF t.obj_entry.key = "/Length"
    THEN [t EXCEPT !.obj_stream.rem_length = value]
    ELSE t

\* atoi(yytext) of the reference token is value, the object number
h_ref(t, value) ==
    IF t.obj_entry.key = "/JS"
    THEN [t EXCEPT !.js_stream_refs = @ \cup { value }]
    ELSE t

h_ind_obj_open(t, value) ==
    IF value \in t.js_stream_refs
    THEN [t EXCEPT !.obj_stream.is_js = TRUE]
    ELSE t

\* h_ind_obj_close() is defined in pdf_tokenizer.h: the object that ends is
\* no JavaScript stream any more
h_ind_obj_close(t) == [t EXCEPT !.obj_stream.is_js = FALSE]

\* EXEC(f): the error r that f returns ends the rule's action; otherwise
\* the rest of the action is carried out and leaves the tokenizer rest
EXEC(r, rest) == IF r.ret # EOS THEN r ELSE PdfRet(rest, EOS)

\* the rules of the start conditions indobj and dictnr, as the tokenizer
\* they leave and the value yylex returns with (EOS: it goes on)
rule_ind_obj_open(t, value) == PdfRet(h_ind_obj_open(PUSH(t, "indobj"), value), EOS)
rule_ind_obj_close(t) == PdfRet(h_ind_obj_close(POP(t)), EOS)
rule_stream_open(t) ==
    EXEC(h_stream_open(t), PUSH(t, IF t.obj_stream.is_js THEN "u16" ELSE "stream"))
rule_dict_open(t, clear_level) == h_dict_open(PUSH(t, "dictnr"), clear_level)
rule_dict_close(t, clear_level) == h_dict_close(POP(t), clear_level)
rule_reference(t, value) ==
    EXEC(h_dict_other(t), h_ref(h_dict_other(t).t, value))
rule_int_num(t, value) ==
    EXEC(h_dict_other(t), h_stream_length(h_dict_other(t).t, value))
rule_other(t) == h_dict_other(t)
rule_name(t, yytext) == h_dict_name(t, yytext)
rule_array_open(t) ==
    h_dict_other([t EXCEPT !.obj_array.nesting_level = @ + 1])
rule_array_close(t) ==
    h_dict_other([t EXCEPT !.obj_array.nesting_level = @ - 1])
rule_str_open(t) ==
    EXEC(h_dict_other(t), PUSH(h_dict_other(t).t, "litstr"))
\* the string's body and its closing delimiter, taken as one
rule_str_close(t) == PdfRet(POP(t), EOS)

\* h_stream: the matched text is counted off the stream's length
h_stream(t, yyleng) ==
    PdfRet([t EXCEPT !.obj_stream.rem_length = @ - yyleng], EOS)

\* u16_eval on the tokenizer: the code points it completes are written to
\* yyout as UTF-8
u16_eval_out(t, bits, byte) ==
    LET r == u16_eval(t.u16_state, bits, byte)
    IN PdfRet([t EXCEPT !.u16_state = r.st,
                        !.yyout = IF r.codes = << >> THEN @
                                  ELSE @ \o u16_to_u8(r.codes[1])],
              r.ret)

\* h_lit_u16: every byte of the matched text goes to u16_eval; the first
\* error ends it
RECURSIVE h_lit_u16(_, _, _)
h_lit_u16(t, bits, text) ==
    IF text = << >> THEN PdfRet(t, EOS)
    ELSE LET r == u16_eval_out(t, bits, Head(text))
         IN IF r.ret # EOS THEN r ELSE h_lit_u16(r.t, bits, Tail(text))

\* h_stream_close: whether the stream ends with the matched 'EOL endstream'
h_stream_close(t, text) ==
    LET t1 == [t EXCEPT !.obj_stream.rem_length = @ - Len(text)]
    IN IF t1.obj_stream.rem_length <= 0
       THEN [t |-> IF YY_START(t1) = "jsstream"
                   THEN [t1 EXCEPT !.yyout = @ \o << 10 >>] ELSE t1,
             closed |-> TRUE]
       ELSE [t |-> IF YY_START(t1) = "jsstream"
                   THEN [t1 EXCEPT !.yyout = @ \o text] ELSE t1,
             closed |-> FALSE]

\* h_u16_start: the BOM was matched in u16
h_u16_start(t) ==
    LET t1 == POP(t)
    IN IF YY_START(t1) = "jslstr" THEN PUSH(POP(t1), "jsstru16")
       ELSE IF YY_START(t1) = "indobj" THEN PUSH(POP(t1), "jsstreamu16")
       ELSE t1

\* h_u16_break: no BOM; the text is given back (yyless(0))
h_u16_break(t) ==
    LET t1 == POP(t)
    IN IF YY_START(t1) = "indobj" THEN PUSH(t1, "jsstream") ELSE t1

\* the rules of the stream start conditions; text: the bytes matched
rule_stream_skip(t, bits, text) ==
    LET r == h_stream(t, Len(text))
    IN IF YY_START(t) = "jsstream"
       THEN PdfRet([r.t EXCEPT !.yyout = @ \o text], EOS)
       ELSE IF YY_START(t) = "jsstreamu16"
       THEN h_lit_u16(r.t, bits, text)
       ELSE r
rule_stream_close(t, text) ==
    LET r == h_stream_close(t, text)
    IN PdfRet(IF r.closed THEN POP(r.t) ELSE r.t, EOS)
rule_u16_bom(t) == PdfRet(h_u16_start(t), EOS)
rule_u16_break(t) == PdfRet(h_u16_break(t), EOS)
\* {SKIP} and {COMMENT} in INITIAL: nothing is done
rule_skip(t) == PdfRet(t, EOS)
\* <*>.|\n: no rule of the start condition matches
rule_unexpected(t) == PdfRet(t, UNEXPECTED_SYMBOL)

\* [0-9A-Fa-f], and the value sscanf's %x gives the digit
IsHexDigit(c) ==
    (48 <= c /\ c <= 57) \/ (65 <= c /\ c <= 70) \/ (97 <= c /\ c <= 102)
HexValue(c) ==
    IF c <= 57 THEN c - 48 ELSE IF c <= 70 THEN c - 55 ELSE c - 87

\* the loop of h_hex_hex2chr: the pairs of digits of text
RECURSIVE hex_pairs(_)
hex_pairs(text) ==
    IF Len(text) < 2 THEN << >>
    ELSE << HexValue(text[1]) * 16 + HexValue(text[2]) >>
         \o hex_pairs(Drop(text, 2))

\* h_hex_hex2chr: the pairs of the matched digits, and the last digit of an
\* odd number of them as the high nibble
h_hex_hex2chr(t, text) ==
    PdfRet([t EXCEPT !.yyout =
               @ \o hex_pairs(text)
                 \o IF Len(text) % 2 = 1
                    THEN << (HexValue(text[Len(text)]) * 16) % 256 >>
                    ELSE << >>],
           EOS)

\* flex: the longest prefix of input, up to max bytes, whose bytes are hex
\* digits (hex) or are neither hex digits nor '>'
RECURSIVE Run(_, _, _)
Run(input, hex, max) ==
    IF input = << >> \/ max = 0 \/ input[1] = 62
          \/ IsHexDigit(input[1]) # hex
    THEN << >>
    ELSE << input[1] >> \o Run(Tail(input), hex, max - 1)

\* the rules of jshstr
rule_hex_body(t, text) == h_hex_hex2chr(t, text)
rule_hex_skip(t) == PdfRet(t, EOS)
rule_hex_close(t) == PdfRet(POP(t), EOS)

\* ------------------------------------------------------------------- Init
\* Http2FlowData as constructed, for direction src
InitSessionData(src) ==
    [ preface |-> (src = SRC_CLIENT),
      payload_discard |-> FALSE,
      scan_octets_seen |-> 0,
      scan_frame_header |-> [i \in 1..FRAME_HEADER_LENGTH |-> 0],
      scan_remaining_frame_octets |-> 0,
      continuation_expected |-> FALSE,
      mid_data_frame |-> FALSE,
      data_processing |-> FALSE,
      cutter_octets_left |-> 0,
      current_stream |-> 0,
      frame_type |-> FT_SETTINGS,
      num_frame_headers |-> 0,
      total_bytes_in_split |-> 0,
      octets_before_first_header |-> 0,
      events |-> {},
      infractions |-> {},
      frame_header |-> << >>,
      frame_header_size |-> 0,
      frame_header_offset |-> 0,
      frame_data |-> << >>,
      frame_data_size |-> 0,
      frame_data_offset |-> 0,
      remaining_frame_octets |-> 0,
      padding_octets_in_frame |-> 0,
      get_padding_len |-> FALSE,
      overrun |-> FALSE ]

NoCall == [op |-> "none", status |-> "NONE", flush_offset |-> 0, log |-> << >>,
           buf_null |-> TRUE]

NoAcct == [consumed |-> 0, flushed_sum |-> 0, carried |-> 0]

InitFor(src) ==
    /\ source_id = src
    /\ session_data = InitSessionData(src)
    /\ wire = << >>
    /\ buffered = << >>
    /\ pdu = << >>
    /\ pdu_total = 0
    /\ pdu_offset = 0
    /\ call = NoCall
    /\ aborted = FALSE
    /\ sent = [preface |-> FALSE, frames |-> 0, data |-> FALSE]
    /\ acct = NoAcct
    /\ tokenizer = InitTokenizer
    /\ lexed = NoLex
    /\ build = [u16_bits |-> 16, clear_level |-> TRUE]
    /\ memory_cap = NoMemoryCap

\* the client-to-server direction: it starts with the preface
Init == InitFor(SRC_CLIENT)

\* the server-to-client direction: frames from the first byte
InitServer == InitFor(SRC_SERVER)

\* ---------------------------------------------------------------- actions
\* the client opens the connection
SendPreface(p) ==
    /\ source_id = SRC_CLIENT
    /\ ~sent.preface
    /\ wire' = p
    /\ sent' = [sent EXCEPT !.preface = TRUE]
    /\ UNCHANGED << source_id, session_data, buffered, pdu, pdu_total,
                    pdu_offset, call, aborted, acct >>
    /\ UNCHANGED << pdf_vars, memory_cap >>

\* the peer sends one more frame, the max-th at most
SendFrame(f, max) ==
    /\ source_id = SRC_SERVER \/ sent.preface
    /\ ~aborted
    /\ pdu = << >>
    /\ sent.frames < max
    /\ Len(wire) < MaxWire
    /\ wire' = wire \o f
    /\ sent' = [sent EXCEPT !.frames = @ + 1,
                            !.data = @ \/ get_frame_type(f) = FT_DATA]
    /\ UNCHANGED << source_id, session_data, buffered, pdu, pdu_total,
                    pdu_offset, call, aborted, acct >>
    /\ UNCHANGED << pdf_vars, memory_cap >>

\* The stream layer calls scan with the next n unread bytes.  On Search the
\* chunk is kept for the PDU to come; on Flush the kept bytes and
\* chunk[..flush_offset] become the PDU and scanning resumes at
\* chunk[flush_offset..]; on Abort the direction is torn down.  track: whether
\* the byte accounting is kept.
ScanStep(n, env, track) ==
    /\ ~aborted
    /\ pdu = << >>
    /\ n = 0 => session_data.num_frame_headers < MaxEmpty
    /\ \E chunk \in { Take(wire, n) } :
       \E r \in { implement_scan(session_data, chunk, env) } :
          /\ session_data' = r.sd
          /\ call' = [op |-> "scan", status |-> r.status,
                      flush_offset |-> IF r.status = "FLUSH" THEN r.flush_offset ELSE 0,
                      log |-> r.log, buf_null |-> TRUE]
          /\ aborted' = (r.status = "ABORT")
          /\ wire' = IF r.status = "FLUSH" THEN Drop(wire, r.flush_offset)
                     ELSE IF r.status = "SEARCH" THEN Drop(wire, n)
                     ELSE wire
          /\ buffered' = IF r.status = "FLUSH" THEN << >>
                         ELSE IF r.status = "SEARCH" THEN buffered \o chunk
                         ELSE buffered
          /\ pdu' = IF r.status = "FLUSH"
                    THEN buffered \o Take(chunk, r.flush_offset) ELSE << >>
          /\ pdu_total' = IF r.status = "FLUSH"
                          THEN Len(buffered) + r.flush_offset ELSE 0
          /\ pdu_offset' = 0
          /\ acct' = IF track
                     THEN [acct EXCEPT
                             !.consumed = @ + (Len(wire) - Len(wire')),
                             !.flushed_sum = IF r.status = "FLUSH"
                                             THEN @ + r.flush_offset ELSE @,
                             !.carried = IF r.status = "FLUSH"
                                         THEN @ + Len(buffered) ELSE @]
                     ELSE acct
    /\ UNCHANGED << source_id, sent >>
    /\ UNCHANGED << pdf_vars, memory_cap >>

Scan(n, env) == ScanStep(n, env, FALSE)

\* the same call, with the stream layer counting the bytes
ScanCounted(n, env) == ScanStep(n, env, TRUE)

\* The stream layer hands the next k bytes of the flushed PDU to reassemble;
\* the call that takes the last of them carries PKT_PDU_TAIL.
Reassemble(k, uninit) ==
    /\ pdu # << >>
    /\ k <= Len(pdu)
    /\ \E r \in { reassemble(session_data, pdu_total, pdu_offset, Take(pdu, k),
                              k = Len(pdu), uninit) } :
          /\ session_data' = r.sd
          /\ call' = [op |-> "reassemble", status |-> "NONE", flush_offset |-> 0,
                      log |-> << >>, buf_null |-> r.buf_null]
    /\ pdu' = Drop(pdu, k)
    /\ pdu_offset' = pdu_offset + k
    /\ UNCHANGED << source_id, wire, buffered, pdu_total, aborted, sent, acct >>
    /\ UNCHANGED << pdf_vars, memory_cap >>

\* the answers that matter to the call: those for a DATA frame
EnvsNow == IF sent.data THEN Envs ELSE { NoEnv }

\* The client-to-server direction: preface, then a few frames; chunks of any
\* size, the empty one included; the stream layer counts the bytes.
Next ==
    \/ \E p \in Prefaces : SendPreface(p)
    \/ \E f \in ClientFrames : SendFrame(f, MaxClientFrames)
    \/ \E n \in 0..Min(MaxChunk, Len(wire)), env \in EnvsNow : ScanCounted(n, env)
    \/ \E u \in UninitBytes : Reassemble(Len(pdu), u)

Spec == Init /\ [][Next]_vars

\* The server-to-client direction with non-DATA frames.
NextFrames ==
    \/ \E f \in HeaderFrames : SendFrame(f, MaxFrames)
    \/ \E n \in 1..Min(MaxChunk, Len(wire)), env \in EnvsNow : Scan(n, env)
    \/ \E u \in UninitBytes : Reassemble(Len(pdu), u)

SpecFrames == InitServer /\ [][NextFrames]_vars

\* The server-to-client direction with DATA frames.
NextData ==
    \/ \E f \in DataFrames : SendFrame(f, MaxDataFrames)
    \/ \E n \in 1..Min(MaxDataChunk, Len(wire)), env \in EnvsNow : Scan(n, env)
    \/ \E u \in UninitBytes : Reassemble(Len(pdu), u)

SpecData == InitServer /\ [][NextData]_vars

\* The server-to-client direction with a header block of the largest frames:
\* here the payloads are on the wire in full.  The stream layer delivers a
\* few short segments at the start of a PDU and then long ones.
FrLongHeaders ==
    FrameHeader(MAX_OCTETS - FRAME_HEADER_LENGTH, FT_HEADERS, 0, 1)
        \o [i \in 1..(MAX_OCTETS - FRAME_HEADER_LENGTH) |-> 0]
FrLongSettings ==
    FrameHeader(MAX_OCTETS - FRAME_HEADER_LENGTH, FT_SETTINGS, 0, 0)
        \o [i \in 1..(MAX_OCTETS - FRAME_HEADER_LENGTH) |-> 0]
LongFrames == { FrLongHeaders, FrLongSettings, FrHeaders, FrContinuationEnd,
                FrSettings }
LongChunks ==
    (1..Min(MaxLongChunk, Len(wire)))
        \cup { n \in { MAX_OCTETS - FRAME_HEADER_LENGTH, MAX_OCTETS, Len(wire) } :
                  n <= Len(wire) }

SendLong(f) ==
    /\ ~aborted
    /\ pdu = << >>
    /\ sent.frames < MaxLongFrames
    /\ wire' = wire \o f
    /\ sent' = [sent EXCEPT !.frames = @ + 1]
    /\ UNCHANGED << source_id, session_data, buffered, pdu, pdu_total,
                    pdu_offset, call, aborted, acct >>
    /\ UNCHANGED << pdf_vars, memory_cap >>

ScanLong(n) ==
    /\ n > MaxLongChunk \/ Len(buffered) + n <= MaxLongChunk
    /\ Scan(n, NoEnv)

NextLong ==
    \/ \E f \in LongFrames : SendLong(f)
    \/ \E n \in LongChunks : ScanLong(n)

SpecLong == InitServer /\ [][NextLong]_vars

\* One byte stream of non-DATA frames, fixed from the start, delivered in
\* non-empty chunks of any size.  sent.stream is the stream and sent.ref what
\* scan makes of it when every call is given all the bytes not yet flushed.
SegFrames ==
    { FrSettings, FrHeaders, FrContinuation, FrContinuationEnd, FrPushPromise }

RECURSIVE SegStreams(_)
SegStreams(k) ==
    IF k = 0 THEN { << >> }
    ELSE SegStreams(k - 1) \cup
         { s \o f : s \in SegStreams(k - 1), f \in SegFrames }

FlushRecord(sd, at) ==
    [at |-> at, num_frame_headers |-> sd.num_frame_headers,
     total_bytes_in_split |-> sd.total_bytes_in_split, events |-> sd.events]

RECURSIVE WholeRun(_, _, _, _)
WholeRun(sd, rest, at, flushes) ==
    IF rest = << >>
    THEN [flushes |-> flushes, aborted |-> FALSE, events |-> sd.events]
    ELSE LET r == implement_scan(sd, rest, NoEnv)
         IN IF r.status = "FLUSH" /\ r.flush_offset > 0
            THEN WholeRun(
                   reassemble(r.sd, r.flush_offset, 0, Take(rest, r.flush_offset),
                              TRUE, FT_HEADERS).sd,
                   Drop(rest, r.flush_offset), at + r.flush_offset,
                   Append(flushes, FlushRecord(r.sd, at + r.flush_offset)))
            ELSE [flushes |-> flushes, aborted |-> r.status = "ABORT",
                  events |-> r.sd.events]

InitSeg ==
    /\ source_id \in { SRC_CLIENT, SRC_SERVER }
    /\ session_data = InitSessionData(source_id)
    /\ \E p \in IF source_id = SRC_CLIENT THEN Prefaces ELSE { << >> } :
       \E s \in SegStreams(MaxSegFrames) :
           /\ wire = p \o s
           /\ sent = [preface |-> source_id = SRC_CLIENT, frames |-> 0,
                      data |-> FALSE, stream |-> p \o s,
                      ref |-> WholeRun(session_data, p \o s, 0, << >>)]
    /\ buffered = << >>
    /\ pdu = << >>
    /\ pdu_total = 0
    /\ pdu_offset = 0
    /\ call = NoCall
    /\ aborted = FALSE
    /\ acct = NoAcct
    /\ tokenizer = InitTokenizer
    /\ lexed = NoLex
    /\ build = [u16_bits |-> 16, clear_level |-> TRUE]
    /\ memory_cap = NoMemoryCap

NextSeg ==
    \/ \E n \in 1..Len(wire) : ScanCounted(n, NoEnv)
    \/ Reassemble(Len(pdu), FT_HEADERS)

SpecSeg == InitSeg /\ [][NextSeg]_vars

\* Either direction of a connection: the client's with its preface, the
\* server's without.
SpecBoth == (Init \/ InitServer) /\ [][Next]_vars

\* The stream layer hands the flushed PDU to reassemble piece by piece: the
\* k bytes from pdu_offset on; the call that takes the last of them carries
\* PKT_PDU_TAIL and the PDU is done with.
ReassemblePart(k, uninit) ==
    /\ pdu # << >>
    /\ k >= 1 /\ pdu_offset + k <= Len(pdu)
    /\ \E r \in { reassemble(session_data, pdu_total, pdu_offset,
                              SubSeq(pdu, pdu_offset + 1, pdu_offset + k),
                              pdu_offset + k = Len(pdu), uninit) } :
          /\ session_data' = r.sd
          /\ call' = [op |-> "reassemble", status |-> "NONE", flush_offset |-> 0,
                      log |-> << >>, buf_null |-> r.buf_null]
    /\ pdu' = IF pdu_offset + k = Len(pdu) THEN << >> ELSE pdu
    /\ pdu_offset' = pdu_offset + k
    /\ UNCHANGED << source_id, wire, buffered, pdu_total, aborted, sent, acct >>
    /\ UNCHANGED << pdf_vars, memory_cap >>

\* The server-to-client direction with padded frames: scan gets all unread
\* bytes at once, reassemble gets the PDU in pieces of any size.
NextReasm ==
    \/ \E f \in ReasmFrames : SendFrame(f, MaxReasmFrames)
    \/ wire # << >> /\ Scan(Len(wire), NoEnv)
    \/ \E k \in 1..Len(pdu), u \in UninitBytes : ReassemblePart(k, u)

SpecReasm == InitServer /\ [][NextReasm]_vars

\* --------------------------------------------------- PDF tokenizer: actions
\* bytes of UTF-16BE units around the surrogate ranges and around the
\* boundaries of the one-, two- and three-byte UTF-8 forms
U16Bytes == { 0, 7, 65, 215, 216, 219, 220, 223, 224, 255 }

\* the widths pdf_tokenizer.h may give u16_state.high and u16_state.low, and
\* whether ObjectDictionary::clear() resets array_level
Builds == [u16_bits : { 16, 32 }, clear_level : BOOLEAN]

InitPdf ==
    /\ source_id = SRC_SERVER
    /\ session_data = InitSessionData(SRC_SERVER)
    /\ wire = << >>
    /\ buffered = << >>
    /\ pdu = << >>
    /\ pdu_total = 0
    /\ pdu_offset = 0
    /\ call = NoCall
    /\ aborted = FALSE
    /\ sent = [preface |-> FALSE, frames |-> 0, data |-> FALSE]
    /\ acct = NoAcct
    /\ tokenizer = InitTokenizer
    /\ lexed = NoLex
    /\ build \in Builds
    /\ memory_cap = NoMemoryCap

\* a rule of one of the UTF-16 start conditions hands the next byte of the
\* string or stream to u16_eval
U16Feed(byte) ==
    /\ Len(lexed.fed) < MaxU16Bytes
    /\ \E r \in { u16_eval(tokenizer.u16_state, build.u16_bits, byte) } :
          /\ tokenizer' = [tokenizer EXCEPT
                             !.u16_state = r.st,
                             !.yyout = IF r.codes = << >> THEN @
                                       ELSE @ \o u16_to_u8(r.codes[1])]
          /\ lexed' = [lexed EXCEPT !.ret = r.ret, !.tok = "u16",
                                    !.fed = @ \o << byte >>,
                                    !.codes = @ \o r.codes,
                                    !.before = tokenizer]
    /\ UNCHANGED << build, h2_vars, memory_cap >>

NextU16 == \E byte \in U16Bytes : U16Feed(byte)

SpecU16 == InitPdf /\ [][NextU16]_vars

\* names, integers and object numbers of the PDF input
DictNames == { "/K", "/V" }
StreamNames == { "/JS", "/Length" }
IntValues == { -1, 2 }
ObjectIds == { 1, 2 }

\* yylex matches the next token: rule r is applied to the tokenizer.  A
\* return value other than EOS ends the run.  yytext: the text of a name
\* token.  opened: the array levels at
\* which the dictionaries now open were opened, innermost last; own: that of
\* the dictionary a '>>' has just closed.
Lex(tok, yytext, max, r) ==
    /\ lexed.ret = EOS
    /\ lexed.n < max
    /\ tokenizer' = r.t
    /\ lexed' = [lexed EXCEPT
                   !.ret = r.ret, !.tok = tok, !.yytext = yytext, !.n = @ + 1,
                   !.opened = IF tok = "dict_open"
                              THEN Append(@, tokenizer.obj_array.nesting_level)
                              ELSE IF tok = "dict_close" /\ @ # << >>
                              THEN SubSeq(@, 1, Len(@) - 1) ELSE @,
                   !.own = IF tok = "dict_close" /\ lexed.opened # << >>
                           THEN lexed.opened[Len(lexed.opened)] ELSE @,
                   !.before = tokenizer]
    /\ UNCHANGED << build, h2_vars, memory_cap >>

In(sc) == YY_START(tokenizer) \in sc

LexIndObjOpen(id, max) ==
    In({ "INITIAL" }) /\ Lex("ind_obj_open", "", max, rule_ind_obj_open(tokenizer, id))
LexIndObjClose(max) ==
    In({ "indobj" }) /\ Lex("ind_obj_close", "", max, rule_ind_obj_close(tokenizer))
LexStreamOpen(max) ==
    In({ "indobj" }) /\ Lex("stream_open", "", max, rule_stream_open(tokenizer))
LexDictOpen(max) ==
    In({ "indobj", "dictnr" })
    /\ Lex("dict_open", "", max, rule_dict_open(tokenizer, build.clear_level))
LexDictClose(max) ==
    In({ "dictnr" })
    /\ Lex("dict_close", "", max, rule_dict_close(tokenizer, build.clear_level))
LexReference(id, max) ==
    In({ "dictnr" }) /\ Lex("other", "", max, rule_reference(tokenizer, id))
LexIntNum(v, max) ==
    In({ "dictnr" }) /\ Lex("other", "", max, rule_int_num(tokenizer, v))
LexOther(max) ==
    In({ "dictnr" }) /\ Lex("other", "", max, rule_other(tokenizer))
LexName(name, max) ==
    In({ "dictnr" }) /\ Lex("name", name, max, rule_name(tokenizer, name))
LexArrayOpen(max) ==
    In({ "dictnr" }) /\ Lex("array_open", "", max, rule_array_open(tokenizer))
LexArrayClose(max) ==
    In({ "dictnr" }) /\ Lex("other", "", max, rule_array_close(tokenizer))
LexStrOpen(max) ==
    In({ "dictnr" }) /\ Lex("other", "", max, rule_str_open(tokenizer))
LexStrClose(max) ==
    In({ "litstr" }) /\ Lex("str_close", "", max, rule_str_close(tokenizer))

\* One indirect object with dictionaries, arrays and strings nested in it.
NextDict ==
    \/ LexIndObjOpen(1, MaxDictTokens)
    \/ LexDictOpen(MaxDictTokens)
    \/ LexDictClose(MaxDictTokens)
    \/ \E name \in DictNames : LexName(name, MaxDictTokens)
    \/ LexOther(MaxDictTokens)
    \/ LexArrayOpen(MaxDictTokens)
    \/ LexArrayClose(MaxDictTokens)
    \/ LexStrOpen(MaxDictTokens)
    \/ LexStrClose(MaxDictTokens)

SpecDict == InitPdf /\ [][NextDict]_vars

\* Indirect objects with a dictionary and a stream: /Length, and /JS with a
\* reference to the object that holds the script.
NextStream ==
    \/ \E id \in ObjectIds : LexIndObjOpen(id, MaxStreamTokens)
    \/ LexIndObjClose(MaxStreamTokens)
    \/ In({ "indobj" }) /\ LexDictOpen(MaxStreamTokens)
    \/ LexDictClose(MaxStreamTokens)
    \/ \E name \in StreamNames : LexName(name, MaxStreamTokens)
    \/ \E v \in IntValues : LexIntNum(v, MaxStreamTokens)
    \/ \E id \in ObjectIds : LexReference(id, MaxStreamTokens)
    \/ LexStreamOpen(MaxStreamTokens)

SpecStream == InitPdf /\ [][NextStream]_vars

\* Indirect objects with JavaScript streams and their bodies.  The input is
\* a sequence of tokens; of a stream's body the bytes matched are given.
JsObjectIds == { 1, 2, 3 }
JsRefIds == { 2 }
JsLengths == { 5, 12 }
\* 'alert', and the UTF-16BE unit of 'a'
JsBodies == { << 97, 108, 101, 114, 116 >>, << 0, 97 >> }
EndStream == << 101, 110, 100, 115, 116, 114, 101, 97, 109 >>
\* {EOL_MARKER}endstream
JsCloses == { << 10 >> \o EndStream, << 13, 10 >> \o EndStream }

\* what is remembered of the run: obj, the number of the object opened
\* last; of the stream opened last, stack0 and out0, the start condition
\* stack and the output before 'stream', bom, whether it began with the BOM,
\* body, its bytes matched so far (after the BOM) without the 'EOL endstream'
\* that closed it, early, whether an 'EOL endstream' was matched that did
\* not close it, closed, whether the last 'EOL endstream' closed it
NoLexJs ==
    [ret |-> EOS, tok |-> "none", n |-> 0, before |-> InitTokenizer, obj |-> 0,
     stack0 |-> << >>, out0 |-> << >>, bom |-> FALSE, body |-> << >>,
     text |-> << >>, closed |-> FALSE, early |-> FALSE]

InitJs ==
    /\ source_id = SRC_SERVER
    /\ session_data = InitSessionData(SRC_SERVER)
    /\ wire = << >>
    /\ buffered = << >>
    /\ pdu = << >>
    /\ pdu_total = 0
    /\ pdu_offset = 0
    /\ call = NoCall
    /\ aborted = FALSE
    /\ sent = [preface |-> FALSE, frames |-> 0, data |-> FALSE]
    /\ acct = NoAcct
    /\ tokenizer = InitTokenizer
    /\ lexed = NoLexJs
    /\ build \in Builds
    /\ memory_cap = NoMemoryCap

\* yylex matches the next token: rule r is applied; a return value other
\* than EOS ends the run
LexJs(tok, value, text, r) ==
    /\ lexed.ret = EOS
    /\ lexed.n < MaxJsTokens
    /\ tokenizer' = r.t
    /\ lexed' = [lexed EXCEPT
                   !.ret = r.ret, !.tok = tok, !.n = @ + 1,
                   !.before = tokenizer, !.text = text,
                   !.obj = IF tok = "ind_obj_open" THEN value ELSE @,
                   !.stack0 = IF tok = "stream_open"
                              THEN tokenizer.yy_start_stack ELSE @,
                   !.out0 = IF tok = "stream_open" THEN tokenizer.yyout ELSE @,
                   !.bom = IF tok = "stream_open" THEN FALSE
                           ELSE IF tok = "u16_bom" THEN TRUE ELSE @,
                   !.body = IF tok = "stream_open" THEN << >>
                            ELSE IF tok = "stream_skip"
                                    \/ (tok = "stream_close"
                                          /\ YY_START(r.t) = YY_START(tokenizer))
                            THEN @ \o text ELSE @,
                   !.early = IF tok = "stream_open" THEN FALSE
                             ELSE @ \/ (tok = "stream_close"
                                          /\ YY_START(r.t) = YY_START(tokenizer)),
                   !.closed = (tok = "stream_close"
                                 /\ Len(r.t.yy_start_stack)
                                       < Len(tokenizer.yy_start_stack))]
    /\ UNCHANGED << build, h2_vars, memory_cap >>

JsIndObjOpen(id) ==
    In({ "INITIAL" })
    /\ LexJs("ind_obj_open", id, << >>, rule_ind_obj_open(tokenizer, id))
JsIndObjClose ==
    In({ "indobj" }) /\ LexJs("ind_obj_close", 0, << >>, rule_ind_obj_close(tokenizer))
\* 'endobj' read in INITIAL is matched by {SKIP}
JsSkip ==
    In({ "INITIAL" }) /\ lexed.tok # "skip"
    /\ LexJs("skip", 0, << >>, rule_skip(tokenizer))
JsDictOpen ==
    In({ "indobj" })
    /\ LexJs("dict_open", 0, << >>, rule_dict_open(tokenizer, build.clear_level))
JsDictClose ==
    In({ "dictnr" })
    /\ LexJs("dict_close", 0, << >>, rule_dict_close(tokenizer, build.clear_level))
JsName(name) ==
    In({ "dictnr" }) /\ LexJs("name", 0, << >>, rule_name(tokenizer, name))
JsIntNum(v) ==
    In({ "dictnr" }) /\ LexJs("int_num", v, << >>, rule_int_num(tokenizer, v))
JsReference(id) ==
    In({ "dictnr" }) /\ LexJs("reference", id, << >>, rule_reference(tokenizer, id))
JsStreamOpen ==
    In({ "indobj" }) /\ LexJs("stream_open", 0, << >>, rule_stream_open(tokenizer))
JsU16Bom ==
    In({ "u16" }) /\ LexJs("u16_bom", 0, << 254, 255 >>, rule_u16_bom(tokenizer))
JsU16Break ==
    In({ "u16" }) /\ LexJs("u16_break", 0, << >>, rule_u16_break(tokenizer))
JsStreamSkip(text) ==
    In({ "stream", "jsstream", "jsstreamu16" })
    /\ LexJs("stream_skip", 0, text,
             rule_stream_skip(tokenizer, build.u16_bits, text))
JsStreamClose(text) ==
    In({ "stream", "jsstream", "jsstreamu16" })
    /\ LexJs("stream_close", 0, text, rule_stream_close(tokenizer, text))

NextJs ==
    \/ \E id \in JsObjectIds : JsIndObjOpen(id)
    \/ JsIndObjClose
    \/ JsSkip
    \/ JsDictOpen
    \/ JsDictClose
    \/ \E name \in StreamNames : JsName(name)
    \/ \E v \in JsLengths : JsIntNum(v)
    \/ \E id \in JsRefIds : JsReference(id)
    \/ JsStreamOpen
    \/ JsU16Bom
    \/ JsU16Break
    \/ \E text \in JsBodies : JsStreamSkip(text)
    \/ \E text \in JsCloses : JsStreamClose(text)

SpecJs == InitJs /\ [][NextJs]_vars

\* A hexadecimal string that is JavaScript, read byte by byte: the lexer is
\* in jshstr behind '<' and the UTF-16 probe, the string's content is
\* fixed from the start as a few pieces and ends with '>'.
Run17 == [i \in 1..17 |-> IF i % 2 = 1 THEN 52 ELSE 49]
\* '4', '1F', ' ', 'a' and a run of 17 digits
HexPieces == { << 52 >>, << 49, 70 >>, << 32 >>, << 97 >>, Run17 }

RECURSIVE HexContents(_)
HexContents(k) ==
    IF k = 0 THEN { << >> }
    ELSE HexContents(k - 1) \cup
         { s \o p : s \in HexContents(k - 1), p \in HexPieces }

NoLexHex ==
    [ret |-> EOS, tok |-> "none", n |-> 0, text |-> << >>, content |-> << >>,
     input |-> << >>, before |-> InitTokenizer]

InitHex ==
    /\ source_id = SRC_SERVER
    /\ session_data = InitSessionData(SRC_SERVER)
    /\ wire = << >>
    /\ buffered = << >>
    /\ pdu = << >>
    /\ pdu_total = 0
    /\ pdu_offset = 0
    /\ call = NoCall
    /\ aborted = FALSE
    /\ sent = [preface |-> FALSE, frames |-> 0, data |-> FALSE]
    /\ acct = NoAcct
    /\ tokenizer = [InitTokenizer EXCEPT
                      !.yy_start_stack = << "INITIAL", "indobj", "dictnr", "jshstr" >>,
                      !.obj_entry.key = "/JS"]
    /\ \E c \in HexContents(MaxHexPieces) :
          lexed = [NoLexHex EXCEPT !.content = c, !.input = c \o << 62 >>]
    /\ build \in Builds
    /\ memory_cap = NoMemoryCap

\* yylex matches text at the head of the input and applies rule r
LexHex(tok, text, r) ==
    /\ lexed.ret = EOS
    /\ text # << >>
    /\ tokenizer' = r.t
    /\ lexed' = [lexed EXCEPT !.ret = r.ret, !.tok = tok, !.n = @ + 1,
                              !.text = text, !.before = tokenizer,
                              !.input = Drop(@, Len(text))]
    /\ UNCHANGED << build, h2_vars, memory_cap >>

HexBody ==
    In({ "jshstr" })
    /\ \E text \in { Run(lexed.input, TRUE, 16) } :
          LexHex("hex_body", text, rule_hex_body(tokenizer, text))
HexSkip ==
    In({ "jshstr" })
    /\ \E text \in { Run(lexed.input, FALSE, 16) } :
          LexHex("hex_skip", text, rule_hex_skip(tokenizer))
HexClose ==
    In({ "jshstr" })
    /\ \E text \in { IF lexed.input # << >> /\ lexed.input[1] = 62
                     THEN << 62 >> ELSE << >> } :
          LexHex("hex_close", text, rule_hex_close(tokenizer))

NextHex == HexBody \/ HexSkip \/ HexClose

SpecHex == InitHex /\ [][NextHex]_vars

\* One indirect object 'n g obj value endobj' whose value is any PDF
\* object.  Of the values that begin with a byte for which indobj has no
\* rule the first byte is read; dictionaries, streams and hexadecimal
\* strings are read token by token.
PlainValues ==
    { "integer", "real", "name", "boolean", "null", "array", "reference" }

\* the value follows 'obj' directly
ObjPlain(kind) ==
    In({ "indobj" }) /\ lexed.tok = "ind_obj_open"
    /\ LexJs(kind, 0, << >>, rule_unexpected(tokenizer))
\* <indobj>{OBJ_HEX_STR_OPEN}, and the string up to its '>'
ObjHexOpen ==
    In({ "indobj" }) /\ lexed.tok = "ind_obj_open"
    /\ LexJs("hex_open", 0, << >>, PdfRet(PUSH(tokenizer, "hexstr"), EOS))
ObjHexClose ==
    In({ "hexstr" }) /\ LexJs("hex_close", 0, << >>, PdfRet(POP(tokenizer), EOS))
ObjDictOpen == lexed.tok = "ind_obj_open" /\ JsDictOpen
ObjStreamOpen == lexed.tok = "dict_close" /\ JsStreamOpen
ObjClose ==
    lexed.tok \in { "dict_close", "hex_close", "stream_close" } /\ JsIndObjClose

NextObj ==
    \/ \E id \in { 1 } : JsIndObjOpen(id)
    \/ \E kind \in PlainValues : ObjPlain(kind)
    \/ ObjHexOpen
    \/ ObjHexClose
    \/ ObjDictOpen
    \/ JsDictClose
    \/ \E name \in StreamNames : JsName(name)
    \/ \E v \in JsLengths : JsIntNum(v)
    \/ \E id \in JsRefIds : JsReference(id)
    \/ ObjStreamOpen
    \/ \E text \in JsBodies : JsStreamSkip(text)
    \/ \E text \in JsCloses : JsStreamClose(text)
    \/ ObjClose

SpecObj == InitJs /\ [][NextObj]_vars

\* ------------------------------------------------- Http2FlowData buffers
\* Http2FlowData of http2_flow_data.cc: the members clear_frame_data and the
\* destructor touch, one of each per direction.  A pointer is 0 (nullptr) or
\* the address of an allocation; heap is the set of live allocations,
\* double_free whether a delete was given an address that is not live.
Sources == { SRC_CLIENT, SRC_SERVER }
Buffers ==
    { "frame_header", "frame_data", "raw_decoded_header", "header_start_line",
      "http2_decoded_header" }
\* where the buffer buf of direction k lives when it is allocated
Address(buf, k) ==
    1 + k + 2 * (CASE buf = "frame_header" -> 0
                   [] buf = "frame_data" -> 1
                   [] buf = "raw_decoded_header" -> 2
                   [] buf = "header_start_line" -> 3
                   [] buf = "http2_decoded_header" -> 4)

\* delete, delete[]: of a null pointer nothing; a live allocation is
\* released; anything else is a double free
Delete(fd, ptr) ==
    IF ptr = 0 THEN fd
    ELSE IF ptr \in fd.heap THEN [fd EXCEPT !.heap = @ \ { ptr }]
    ELSE [fd EXCEPT !.double_free = TRUE]

\* a faulty variant: frame_header is released whatever is left over
clear_frame_data_all(fd, k) ==
    LET f1 == [Delete(fd, fd.frame_header[k]) EXCEPT !.frame_header[k] = 0]
        f2 == [Delete(f1, f1.frame_data[k]) EXCEPT
                 !.frame_data[k] = 0, !.frame_in_detection = FALSE]
        f3 == [Delete(f2, f2.raw_decoded_header[k]) EXCEPT
                 !.raw_decoded_header[k] = 0,
                 !.continuation_expected[k] = FALSE,
                 !.frames_aggregated[k] = 0,
                 !.scan_header_octets_seen[k] = 0]
        f4 == [Delete(f3, f3.header_start_line[k]) EXCEPT
                 !.header_start_line[k] = 0]
    IN [Delete(f4, f4.http2_decoded_header[k]) EXCEPT
          !.http2_decoded_header[k] = 0]

\* Http2FlowData::clear_frame_data
clear_frame_data(fd, k) ==
    LET f1 == IF fd.leftover_data[k] = 0
              THEN [Delete(fd, fd.frame_header[k]) EXCEPT !.frame_header[k] = 0]
              ELSE fd
        f2 == [Delete(f1, f1.frame_data[k]) EXCEPT
                 !.frame_data[k] = 0, !.frame_in_detection = FALSE]
        f3 == [Delete(f2, f2.raw_decoded_header[k]) EXCEPT
                 !.raw_decoded_header[k] = 0,
                 !.continuation_expected[k] = FALSE,
                 !.frames_aggregated[k] = 0,
                 !.scan_header_octets_seen[k] = 0]
        f4 == [Delete(f3, f3.header_start_line[k]) EXCEPT
                 !.header_start_line[k] = 0]
    IN [Delete(f4, f4.http2_decoded_header[k]) EXCEPT
          !.http2_decoded_header[k] = 0]

\* the loop of Http2FlowData::~Http2FlowData for direction k (infractions
\* and events are not modelled)
destruct_direction(fd, k) ==
    Delete(Delete(Delete(Delete(fd, fd.frame_header[k]), fd.frame_data[k]),
                  fd.raw_decoded_header[k]), fd.http2_decoded_header[k])
destruct(fd) == destruct_direction(destruct_direction(fd, 0), 1)

\* the flow data at some point of the flow's life: any of the buffers
\* allocated, the flags and counters set or not
FlowDirection ==
    [ allocated : SUBSET Buffers, dirty : BOOLEAN, leftover_data : { 0, MaxLeftover } ]

FlowData(d) ==
    [ frame_header |-> [k \in Sources |->
          IF "frame_header" \in d[k].allocated THEN Address("frame_header", k) ELSE 0],
      frame_data |-> [k \in Sources |->
          IF "frame_data" \in d[k].allocated THEN Address("frame_data", k) ELSE 0],
      raw_decoded_header |-> [k \in Sources |->
          IF "raw_decoded_header" \in d[k].allocated
          THEN Address("raw_decoded_header", k) ELSE 0],
      header_start_line |-> [k \in Sources |->
          IF "header_start_line" \in d[k].allocated
          THEN Address("header_start_line", k) ELSE 0],
      http2_decoded_header |-> [k \in Sources |->
          IF "http2_decoded_header" \in d[k].allocated
          THEN Address("http2_decoded_header", k) ELSE 0],
      continuation_expected |-> [k \in Sources |-> d[k].dirty],
      frames_aggregated |-> [k \in Sources |-> IF d[k].dirty THEN 2 ELSE 0],
      scan_header_octets_seen |-> [k \in Sources |-> IF d[k].dirty THEN 3 ELSE 0],
      leftover_data |-> [k \in Sources |-> d[k].leftover_data],
      frame_in_detection |-> d[SRC_CLIENT].dirty \/ d[SRC_SERVER].dirty,
      heap |-> UNION { { Address(buf, k) : buf \in d[k].allocated } : k \in Sources },
      double_free |-> FALSE ]

InitFlow ==
    /\ source_id = SRC_SERVER
    /\ \E d \in [Sources -> FlowDirection] : session_data = FlowData(d)
    /\ wire = << >>
    /\ buffered = << >>
    /\ pdu = << >>
    /\ pdu_total = 0
    /\ pdu_offset = 0
    /\ call = [op |-> "none", k |-> 0, before |-> << >>]
    /\ aborted = FALSE
    /\ sent = [preface |-> FALSE, frames |-> 0, data |-> FALSE]
    /\ acct = NoAcct
    /\ tokenizer = InitTokenizer
    /\ lexed = NoLex
    /\ build = [u16_bits |-> 16, clear_level |-> TRUE]
    /\ memory_cap = NoMemoryCap

ClearFrameData(k) ==
    /\ call.op # "destruct"
    /\ session_data' = clear_frame_data(session_data, k)
    /\ call' = [op |-> "clear_frame_data", k |-> k, before |-> session_data]
    /\ UNCHANGED << source_id, wire, buffered, pdu, pdu_total, pdu_offset,
                    aborted, sent, acct >>
    /\ UNCHANGED << pdf_vars, memory_cap >>

Destruct ==
    /\ call.op # "destruct"
    /\ session_data' = destruct(session_data)
    /\ call' = [op |-> "destruct", k |-> 0, before |-> session_data]
    /\ UNCHANGED << source_id, wire, buffered, pdu, pdu_total, pdu_offset,
                    aborted, sent, acct >>
    /\ UNCHANGED << pdf_vars, memory_cap >>

NextFlow ==
    \/ \E k \in Sources : ClearFrameData(k)
    \/ Destruct

SpecFlow == InitFlow /\ [][NextFlow]_vars

\* ------------------------------------------- the start-condition stack
\* The rules of the string start conditions.  h_lit_str, h_hex_str,
\* h_lit_open and h_lit_close are declared in pdf_tokenizer.h; what each
\* returns is an input of the rule (js, first, last).
\* <dictnr>{OBJ_LIT_STR_OPEN} and <dictnr>{OBJ_HEX_STR_OPEN}
rule_dict_lit_open(t, js) ==
    EXEC(h_dict_other(t), PUSH(h_dict_other(t).t, IF js THEN "jslstr" ELSE "litstr"))
rule_dict_hex_open(t, js) ==
    EXEC(h_dict_other(t), PUSH(h_dict_other(t).t, IF js THEN "jshstr" ELSE "hexstr"))
\* <indobj>{OBJ_LIT_STR_OPEN}, <litstr>{OBJ_LIT_STR_OPEN}
rule_lit_open(t, first) ==
    PdfRet(IF YY_START(t) = "indobj" /\ first THEN PUSH(t, "litstr") ELSE t, EOS)
\* <litstr>, <jslstr>, <jsstru16>{OBJ_LIT_STR_CLOSE}; text: the ')'
rule_lit_close(t, last, text) ==
    PdfRet(IF last THEN POP(t)
           ELSE IF YY_START(t) = "jslstr" THEN [t EXCEPT !.yyout = @ \o text]
           ELSE t, EOS)
\* <jslstr>{OBJ_LIT_STR_OPEN}; text: the '('
rule_jslstr_open(t, first, text) ==
    PdfRet(IF ~first THEN [t EXCEPT !.yyout = @ \o text] ELSE PUSH(t, "u16"), EOS)
\* a faulty variant of <jshstr>{OBJ_HEX_STR_OPEN}: the probe of the literal
\* strings is started
rule_jshstr_open_u16(t) == PdfRet(PUSH(t, "u16"), EOS)
\* <jshstr>{OBJ_HEX_STR_OPEN}
rule_jshstr_open(t) == PdfRet(PUSH(t, "u16hex"), EOS)
\* h_u16_hex_start, h_u16_hex_break
h_u16_hex_start(t) == PUSH(POP(POP(t)), "jshstru16")
h_u16_hex_break(t) == POP(t)
rule_u16_hex_bom(t) == PdfRet(h_u16_hex_start(t), EOS)
rule_u16_hex_break(t) == PdfRet(h_u16_hex_break(t), EOS)

\* yy_pop_state calls of the rule applied next: token, and what h_lit_close
\* or h_stream_close returns
Pops(t, tok, last) ==
    CASE tok \in { "ind_obj_close", "dict_close", "hex_close", "u16_break",
                   "u16_hex_break" } -> 1
      [] tok \in { "lit_close", "stream_close" } -> IF last THEN 1 ELSE 0
      [] tok = "u16_bom" ->
            IF Len(t.yy_start_stack) > 1
                  /\ YY_START(POP(t)) \in { "jslstr", "indobj" } THEN 2 ELSE 1
      [] tok = "u16_hex_bom" -> 2
      [] OTHER -> 0

\* the assertion of the probe handler the rule calls fails
Asserts(t, tok) ==
    CASE tok \in { "u16_bom", "u16_break" } ->
            YY_START(POP(t)) \notin { "jslstr", "indobj" }
      [] tok \in { "u16_hex_bom", "u16_hex_break" } ->
            YY_START(POP(t)) # "jshstr"
      [] OTHER -> FALSE

\* lexed: ret, tok, n, before as above; fatal: yy_pop_state found the stack
\* empty (YY_FATAL_ERROR); asserted: an assertion of a probe handler failed
NoLexStack ==
    [ret |-> EOS, tok |-> "none", n |-> 0, before |-> InitTokenizer,
     fatal |-> FALSE, asserted |-> FALSE]

InitStack ==
    /\ source_id = SRC_SERVER
    /\ session_data = InitSessionData(SRC_SERVER)
    /\ wire = << >>
    /\ buffered = << >>
    /\ pdu = << >>
    /\ pdu_total = 0
    /\ pdu_offset = 0
    /\ call = NoCall
    /\ aborted = FALSE
    /\ sent = [preface |-> FALSE, frames |-> 0, data |-> FALSE]
    /\ acct = NoAcct
    /\ tokenizer = InitTokenizer
    /\ lexed = NoLexStack
    /\ build \in { b \in Builds : b.u16_bits = 16 }
    /\ memory_cap = NoMemoryCap

\* yylex applies the rule of token tok; a value other than EOS is returned
\* to the caller of process, which may call again: the tokenizer stays as it
\* is.  A pop of the empty stack or a failed assertion ends the process.
LexStack(tok, last, r) ==
    /\ ~lexed.fatal /\ ~lexed.asserted
    /\ lexed.n < MaxStackTokens
    /\ IF Len(tokenizer.yy_start_stack) - 1 < Pops(tokenizer, tok, last)
       THEN /\ lexed' = [lexed EXCEPT !.tok = tok, !.n = @ + 1, !.fatal = TRUE,
                                      !.before = tokenizer]
            /\ UNCHANGED tokenizer
       ELSE IF Asserts(tokenizer, tok)
       THEN /\ lexed' = [lexed EXCEPT !.tok = tok, !.n = @ + 1, !.asserted = TRUE,
                                      !.before = tokenizer]
            /\ UNCHANGED tokenizer
       ELSE /\ tokenizer' = r.t
            /\ lexed' = [lexed EXCEPT !.ret = r.ret, !.tok = tok, !.n = @ + 1,
                                      !.before = tokenizer]
    /\ UNCHANGED << build, h2_vars, memory_cap >>

StackText == << 97 >>

StIndObjOpen ==
    In({ "INITIAL" })
    /\ LexStack("ind_obj_open", FALSE, rule_ind_obj_open(tokenizer, 1))
StIndObjClose ==
    In({ "indobj" })
    /\ LexStack("ind_obj_close", FALSE, rule_ind_obj_close(tokenizer))
StStreamOpen ==
    In({ "indobj" }) /\ LexStack("stream_open", FALSE, rule_stream_open(tokenizer))
StStreamSkip ==
    In({ "stream", "jsstream", "jsstreamu16" }) /\ lexed.tok # "stream_skip"
    /\ LexStack("stream_skip", FALSE,
                rule_stream_skip(tokenizer, build.u16_bits, StackText))
StStreamClose ==
    In({ "stream", "jsstream", "jsstreamu16" })
    /\ \E text \in { << 10 >> \o EndStream } :
          LexStack("stream_close", h_stream_close(tokenizer, text).closed,
                   rule_stream_close(tokenizer, text))
StDictOpen ==
    In({ "indobj", "dictnr" })
    /\ LexStack("dict_open", FALSE, rule_dict_open(tokenizer, build.clear_level))
StDictClose ==
    In({ "dictnr" })
    /\ LexStack("dict_close", FALSE, rule_dict_close(tokenizer, build.clear_level))
StName(name) ==
    In({ "dictnr" }) /\ LexStack("name", FALSE, rule_name(tokenizer, name))
StIntNum ==
    In({ "dictnr" }) /\ LexStack("int_num", FALSE, rule_int_num(tokenizer, 1))
StReference ==
    In({ "dictnr" }) /\ LexStack("reference", FALSE, rule_reference(tokenizer, 1))
StDictLitOpen(js) ==
    In({ "dictnr" })
    /\ LexStack("dict_lit_open", FALSE, rule_dict_lit_open(tokenizer, js))
StDictHexOpen(js) ==
    In({ "dictnr" })
    /\ LexStack("dict_hex_open", FALSE, rule_dict_hex_open(tokenizer, js))
StLitOpen(first) ==
    In({ "indobj", "litstr" })
    /\ LexStack("lit_open", FALSE, rule_lit_open(tokenizer, first))
StLitClose(last) ==
    In({ "litstr", "jslstr", "jsstru16" })
    /\ LexStack("lit_close", last, rule_lit_close(tokenizer, last, << 41 >>))
StJsLitOpen(first) ==
    In({ "jslstr" })
    /\ LexStack("jslstr_open", FALSE, rule_jslstr_open(tokenizer, first, << 40 >>))
StHexOpen ==
    In({ "indobj" })
    /\ LexStack("hex_open", FALSE, PdfRet(PUSH(tokenizer, "hexstr"), EOS))
StHexClose ==
    In({ "hexstr", "jshstr", "jshstru16" })
    /\ LexStack("hex_close", FALSE, rule_hex_close(tokenizer))
StJsHexOpen ==
    In({ "jshstr" }) /\ LexStack("jshstr_open", FALSE, rule_jshstr_open(tokenizer))
StU16Bom ==
    In({ "u16" }) /\ LexStack("u16_bom", FALSE, rule_u16_bom(tokenizer))
StU16Break ==
    In({ "u16" }) /\ LexStack("u16_break", FALSE, rule_u16_break(tokenizer))
StU16HexBom ==
    In({ "u16hex" }) /\ LexStack("u16_hex_bom", FALSE, rule_u16_hex_bom(tokenizer))
StU16HexBreak ==
    In({ "u16hex" })
    /\ LexStack("u16_hex_break", FALSE, rule_u16_hex_break(tokenizer))
\* <*>.|\n: a byte no rule of the start condition matches
StUnexpected ==
    lexed.tok # "unexpected"
    /\ LexStack("unexpected", FALSE, rule_unexpected(tokenizer))

NextStack ==
    \/ StIndObjOpen
    \/ StIndObjClose
    \/ StStreamOpen
    \/ StStreamSkip
    \/ StStreamClose
    \/ StDictOpen
    \/ StDictClose
    \/ \E name \in StreamNames : StName(name)
    \/ StIntNum
    \/ StReference
    \/ \E js \in BOOLEAN : StDictLitOpen(js)
    \/ \E js \in BOOLEAN : StDictHexOpen(js)
    \/ \E first \in BOOLEAN : StLitOpen(first)
    \/ \E last \in BOOLEAN : StLitClose(last)
    \/ \E first \in BOOLEAN : StJsLitOpen(first)
    \/ StHexOpen
    \/ StHexClose
    \/ StJsHexOpen
    \/ StU16Bom
    \/ StU16Break
    \/ StU16HexBom
    \/ StU16HexBreak
    \/ StUnexpected

SpecStack == InitStack /\ [][NextStack]_vars

\* -------------------------------------------------- MemoryCap, one thread
\* config.cap and config.threshold, config.prune_target; what the heap
\* reports for the process
MemCaps == { 0, 200 }
MemThreshold == 50
PruneTargets == { 0, 2 }
MemTotals == { 50, 150 }

\* setup on the main thread, which runs epoch_check once, then thread_init
\* on the packet thread
MemorySetup(cap, target, epoch, total) ==
    LET m == epoch_check([NoMemoryCap EXCEPT !.limit = limit_of(cap, MemThreshold),
                                             !.prune_target = target],
                         epoch, total)
    IN thread_init([m EXCEPT !.mc.start_up_use = m.mc.cur_in_use])

InitMem ==
    /\ source_id = SRC_SERVER
    /\ session_data = InitSessionData(SRC_SERVER)
    /\ wire = << >>
    /\ buffered = << >>
    /\ pdu = << >>
    /\ pdu_total = 0
    /\ pdu_offset = 0
    /\ call = NoCall
    /\ aborted = FALSE
    /\ sent = [preface |-> FALSE, frames |-> 0, data |-> FALSE]
    /\ acct = NoAcct
    /\ tokenizer = InitTokenizer
    /\ lexed = NoLex
    /\ build = [u16_bits |-> 16, clear_level |-> TRUE]
    /\ \E cap \in MemCaps, target \in PruneTargets, epoch \in 0..1,
          total \in MemTotals :
          memory_cap = MemorySetup(cap, target, epoch, total)

\* the periodic handler runs on the main thread: the heap's epoch has moved
\* on or not
EpochCheck(epoch, total) ==
    /\ memory_cap.mc.epochs < MaxEpochs
    /\ epoch >= memory_cap.current_epoch
    /\ memory_cap' = [epoch_check(memory_cap, epoch, total) EXCEPT
                        !.last = [op |-> "epoch_check"]]
    /\ UNCHANGED << pdf_vars, h2_vars >>

\* the packet thread calls free_space; the thread has deallocated freed
\* bytes since the call before
FreeSpace(freed, ok) ==
    /\ memory_cap.mc.deallocated + freed <= MaxDeallocated
    /\ memory_cap.mc.reap_attempts < MaxReaps
    /\ \E r \in { free_space(memory_cap, memory_cap.mc.allocated,
                             memory_cap.mc.deallocated + freed, ok) } :
          memory_cap' = [r.m EXCEPT
                           !.last = [op |-> "free_space", path |-> r.path,
                                     ok |-> ok, freed |-> freed,
                                     before |-> [memory_cap EXCEPT
                                                   !.last = [op |-> "none"]]],
                           !.cycle = IF r.m.mc.reap_cycles > memory_cap.mc.reap_cycles
                                     THEN [on |-> r.path # "ended",
                                           epoch |-> memory_cap.current_epoch,
                                           start |-> r.m.mc.deallocated]
                                     ELSE [@ EXCEPT !.on = @ /\ r.path # "ended"]]
    /\ UNCHANGED << pdf_vars, h2_vars >>

NextMem ==
    \/ \E epoch \in 0..MaxEpochs, total \in MemTotals : EpochCheck(epoch, total)
    \/ \E freed \in 0..MaxFreed, ok \in BOOLEAN : FreeSpace(freed, ok)

SpecMem == InitMem /\ [][NextMem]_vars

\* ------------------------------------------------------------- properties
\* the bytes of data equal the connection preface from position seen on, as
\* far as the two overlap
MatchesPrefix(data, seen) ==
    \A i \in 1..Len(data) :
        seen + i <= preface_length => data[i] = connection_prefix[seen + i]

\* C1: while the preface is awaited, a scan call returns Search and counts
\* the chunk as long as all bytes so far equal the preface and fewer than 24
\* have come; it returns Abort and records PREFACE_MATCH_FAILURE on the first
\* chunk with a differing byte; when the 24th byte arrives it returns Flush
\* with flush_offset = 24 - octets_seen, clears preface, sets payload_discard
\* and resets the octet counter.
C1_PrefacePhase ==
    [][ \A n \in 0..Len(wire), env \in Envs :
          (session_data.preface /\ ScanCounted(n, env)) =>
             LET seen == session_data.scan_octets_seen
                 chunk == Take(wire, n)
             IN /\ buffered = Take(connection_prefix, seen)
                /\ (MatchesPrefix(chunk, seen) /\ seen + n < preface_length) =>
                      /\ call'.status = "SEARCH"
                      /\ session_data'.preface
                      /\ session_data'.scan_octets_seen = seen + n
                /\ ~MatchesPrefix(chunk, seen) =>
                      /\ call'.status = "ABORT"
                      /\ "EVENT_PREFACE_MATCH_FAILURE" \in session_data'.events
                /\ (MatchesPrefix(chunk, seen) /\ seen + n >= preface_length) =>
                      /\ call'.status = "FLUSH"
                      /\ call'.flush_offset = preface_length - seen
                      /\ ~session_data'.preface
                      /\ session_data'.payload_discard
                      /\ session_data'.scan_octets_seen = 0
      ]_vars

\* the preface came in several chunks and the last of them completed it
C1_Witness ==
    /\ call.op = "scan" /\ call.status = "FLUSH"
    /\ session_data.payload_discard /\ ~session_data.preface
    /\ call.flush_offset < preface_length
    /\ pdu = connection_prefix

\* the three chunks of the scenario: "PRI * HT", "TP/2.0" CR LF CR LF "SM"
\* CR LF, and CR LF followed by an empty SETTINGS frame header
Chunk1 == Take(connection_prefix, 8)
Chunk2 == Take(Drop(connection_prefix, 8), 14)
Chunk3 == Drop(connection_prefix, 22) \o FrameHeader(0, FT_SETTINGS, 0, 0)

\* the scenario's calls: the first two return Search, the third returns
\* Flush with flush_offset fo
ThreeChunks(fo) ==
    \A env \in Envs :
      /\ (session_data.preface /\ session_data.scan_octets_seen = 0
          /\ Take(wire, 8) = Chunk1 /\ ScanCounted(8, env)) =>
             (call'.status = "SEARCH" /\ session_data'.scan_octets_seen = 8)
      /\ (session_data.preface /\ session_data.scan_octets_seen = 8
          /\ Take(wire, 14) = Chunk2 /\ ScanCounted(14, env)) =>
             (call'.status = "SEARCH" /\ session_data'.scan_octets_seen = 22)
      /\ (session_data.preface /\ session_data.scan_octets_seen = 22
          /\ wire = Chunk3 /\ ScanCounted(11, env)) =>
             (call'.status = "FLUSH" /\ call'.flush_offset = fo)

\* C2 as stated: the preface in chunks of 8, 14 and 11 bytes (the last with a
\* SETTINGS header) gives Search, Search, Flush with flush_offset = 16.
C2_Original == [][ThreeChunks(16)]_vars

\* C2: the same chunks give Search, Search, Flush with flush_offset = 2, the
\* bytes of the third chunk that complete the 24.
C2_ThreeChunks == [][ThreeChunks(2)]_vars

\* the third call has returned: 22 bytes kept and 2 flushed make the
\* preface, the SETTINGS header is still unread
C2_Witness ==
    /\ call.op = "scan" /\ call.status = "FLUSH" /\ call.flush_offset = 2
    /\ pdu = connection_prefix
    /\ wire = FrameHeader(0, FT_SETTINGS, 0, 0)
    /\ session_data.payload_discard

\* ---- the frames of one scan call
\* the entries of the log of the scan call just made
Entries == IF call.op = "scan" THEN { call.log[i] : i \in DOMAIN call.log } ELSE {}

\* the last frame the call dispatched
LastEntry == call.log[Len(call.log)]

\* the frame was admitted: its length went into the split, now or in an
\* earlier call
Accepted(e) ==
    e.rem > 0 \/ e.tbs_after = e.tbs + FRAME_HEADER_LENGTH + e.length

\* the call saw the end of the frame
Complete(e) == Accepted(e) /\ e.rem_after = 0

EndHeaders(e) == HasFlag(e.flags, END_HEADERS)

Recorded(e, event, infraction) ==
    event \in e.events_after /\ infraction \in e.infractions_after

\* the types of the whole frames that make up bytes; -1 where they end in
\* the middle of a frame
RECURSIVE FrameTypes(_)
FrameTypes(bytes) ==
    IF bytes = << >> THEN << >>
    ELSE IF Len(bytes) < FRAME_HEADER_LENGTH
            \/ Len(bytes) < FRAME_HEADER_LENGTH + get_frame_length(bytes)
    THEN << -1 >>
    ELSE << get_frame_type(bytes) >> \o
         FrameTypes(Drop(bytes, FRAME_HEADER_LENGTH + get_frame_length(bytes)))

\* bytes is a HEADERS frame followed by CONTINUATION frames, one at least
HeaderBlock(bytes) ==
    LET t == FrameTypes(bytes)
    IN /\ Len(t) >= 2
       /\ t[1] = FT_HEADERS
       /\ \A j \in 2..Len(t) : t[j] = FT_CONTINUATION

\* C3: a complete HEADERS frame without END_HEADERS sets
\* continuation_expected and yields Search; a complete CONTINUATION without
\* END_HEADERS that was expected yields Search; the first CONTINUATION with
\* END_HEADERS clears continuation_expected and yields Flush with
\* flush_offset at its end, the PDU being the whole run from the HEADERS
\* frame on, however the frames were cut into chunks.
C3_HeaderBlock ==
    \A i \in DOMAIN call.log :
       LET e == call.log[i]
       IN call.op = "scan" =>
          /\ (e.type = FT_HEADERS /\ ~EndHeaders(e) /\ Complete(e)) =>
                (e.status = "SEARCH" /\ e.ce_after)
          /\ (e.type = FT_CONTINUATION /\ e.ce /\ ~EndHeaders(e) /\ Complete(e)) =>
                (e.status = "SEARCH" /\ e.ce_after)
          /\ (e.type = FT_CONTINUATION /\ e.ce /\ EndHeaders(e) /\ Complete(e)) =>
                /\ e.status = "FLUSH" /\ ~e.ce_after
                /\ ~session_data.continuation_expected
                /\ i = Len(call.log) /\ call.status = "FLUSH"
                /\ pdu_total = Len(pdu)
                /\ HeaderBlock(pdu)

\* HEADERS, CONTINUATION and the closing CONTINUATION were flushed as one
\* PDU; the HEADERS frame came in an earlier chunk than the other two
C3_Witness ==
    /\ call.op = "scan" /\ call.status = "FLUSH"
    /\ FrameTypes(pdu) = << FT_HEADERS, FT_CONTINUATION, FT_CONTINUATION >>
    /\ Len(call.log) = 2

\* the header of a non-DATA frame is rejected before the frame is looked at
RejectedAtHeader(e) ==
    e.dp \/ (e.rem = 0 /\ e.length + FRAME_HEADER_LENGTH > MAX_OCTETS)

\* C4 as stated: a CONTINUATION frame met while continuation_expected is
\* false is never flushed; scan returns Abort for it (Search only while the
\* frame is incomplete) with the UNEXPECTED_CONTINUATION event and infraction.
C4_Original ==
    \A e \in Entries :
       (e.type = FT_CONTINUATION /\ ~e.ce) =>
          \/ e.status = "SEARCH" /\ e.rem_after > 0
          \/ /\ e.status = "ABORT"
             /\ Recorded(e, "EVENT_UNEXPECTED_CONTINUATION",
                         "INF_UNEXPECTED_CONTINUATION")

\* C4: a CONTINUATION frame met while continuation_expected is false is
\* never flushed; once it is complete scan returns Abort with the
\* UNEXPECTED_CONTINUATION event and infraction; scan returns Abort at its
\* header, without them, when data_processing is set or the frame with its
\* header exceeds MAX_OCTETS.
C4_UnexpectedContinuation ==
    \A e \in Entries :
       (e.type = FT_CONTINUATION /\ ~e.ce) =>
          /\ e.status # "FLUSH"
          /\ e.status = "SEARCH" => e.rem_after > 0
          /\ RejectedAtHeader(e) =>
                (e.status = "ABORT" /\ e.events_after = e.events
                 /\ e.infractions_after = e.infractions)
          /\ Complete(e) =>
                /\ e.status = "ABORT"
                /\ Recorded(e, "EVENT_UNEXPECTED_CONTINUATION",
                            "INF_UNEXPECTED_CONTINUATION")

\* a complete CONTINUATION that nobody expected has been refused
C4_Witness ==
    /\ call.op = "scan" /\ call.status = "ABORT" /\ call.log # << >>
    /\ LastEntry.type = FT_CONTINUATION /\ ~LastEntry.ce
    /\ "EVENT_UNEXPECTED_CONTINUATION" \in session_data.events
    /\ "INF_UNEXPECTED_CONTINUATION" \in session_data.infractions

\* the header of a frame other than DATA and CONTINUATION is complete while
\* a CONTINUATION is expected
ContinuationMissing(e) ==
    e.ce /\ e.type # FT_DATA /\ e.type # FT_CONTINUATION

C6_Original ==
    \A e \in Entries :
       /\ e.type = FT_PUSH_PROMISE => e.status # "FLUSH"
       /\ (e.type = FT_CONTINUATION /\ ~e.ce /\ Complete(e)) =>
             (e.status = "ABORT" /\ "EVENT_UNEXPECTED_CONTINUATION" \in e.events_after)

\* the PDU reassembled last was a PUSH_PROMISE frame, and the call just
\* made began with the frame next to it
AfterPushPromise ==
    /\ call.op = "scan" /\ call.log # << >>
    /\ Len(session_data.frame_header) = FRAME_HEADER_LENGTH
    /\ get_frame_type(session_data.frame_header) = FT_PUSH_PROMISE
    /\ call.log[1].tbs = 0

\* C6: a complete PUSH_PROMISE frame met while no CONTINUATION is expected is
\* flushed as a PDU of its own and leaves continuation_expected false; the
\* CONTINUATION that follows it is never flushed: once complete it is refused
\* with UNEXPECTED_CONTINUATION.
C6_PushPromise ==
    /\ \A e \in Entries :
          (e.type = FT_PUSH_PROMISE /\ ~e.ce /\ Complete(e)) =>
             /\ e.status = "FLUSH" /\ ~e.ce_after
             /\ call.status = "FLUSH" /\ e = LastEntry
             /\ FrameTypes(pdu) = << FT_PUSH_PROMISE >>
    /\ (AfterPushPromise /\ call.log[1].type = FT_CONTINUATION) =>
          /\ ~call.log[1].ce
          /\ call.log[1].status # "FLUSH"
          /\ call.status # "FLUSH"
          /\ Complete(call.log[1]) =>
                /\ call.log[1].status = "ABORT"
                /\ Recorded(call.log[1], "EVENT_UNEXPECTED_CONTINUATION",
                            "INF_UNEXPECTED_CONTINUATION")

\* a PUSH_PROMISE frame was flushed and reassembled, and the CONTINUATION
\* after it has been refused
C6_Witness ==
    /\ AfterPushPromise
    /\ call.status = "ABORT"
    /\ call.log[1].type = FT_CONTINUATION
    /\ "EVENT_UNEXPECTED_CONTINUATION" \in session_data.events

\* C7: a non-DATA frame whose length with the header exceeds MAX_OCTETS makes
\* scan return Abort when its header is complete, with
\* scan_remaining_frame_octets and total_bytes_in_split as they were; no such
\* frame is ever admitted or flushed.
C7_LongFrame ==
    \A e \in Entries :
       (e.type # FT_DATA /\ e.length + FRAME_HEADER_LENGTH > MAX_OCTETS) =>
          /\ e.status = "ABORT"
          /\ e.rem = 0 /\ e.rem_after = 0
          /\ e.tbs_after = e.tbs
          /\ session_data.scan_remaining_frame_octets = 0
          /\ session_data.total_bytes_in_split = e.tbs

\* a CONTINUATION that is too long was refused for its length, the HEADERS
\* frame before it being counted already
C7_Witness ==
    /\ call.op = "scan" /\ call.status = "ABORT" /\ call.log # << >>
    /\ LastEntry.type = FT_CONTINUATION /\ LastEntry.ce
    /\ LastEntry.length + FRAME_HEADER_LENGTH = MAX_OCTETS + 1
    /\ session_data.events = {}
    /\ session_data.total_bytes_in_split = Len(FrHeaders)

\* what data_scan asks before it hands a DATA frame to the cutter
StreamReady(e) == e.env.stream /\ e.env.http_flow

\* C8 as stated: a DATA frame goes to the cutter only if the stream exists,
\* its flow expects a body and 0 < length <= MAX_OCTETS; otherwise scan
\* returns Abort, with the FRAME_SEQUENCE event and infraction whenever no
\* matching body is expected.
C8_Original ==
    \A e \in Entries :
       e.type = FT_DATA =>
          /\ e.cut => (StreamReady(e) /\ e.env.body_expected
                       /\ e.length > 0 /\ e.length <= MAX_OCTETS)
          /\ ~e.cut => e.status = "ABORT"
          /\ ~(StreamReady(e) /\ e.env.body_expected) =>
                Recorded(e, "EVENT_FRAME_SEQUENCE", "INF_FRAME_SEQUENCE")

\* C8: a DATA frame goes to the cutter exactly when the stream and its flow
\* exist, the flow expects a body and 0 < length <= MAX_OCTETS; otherwise
\* scan returns Abort; the FRAME_SEQUENCE event and infraction are recorded
\* when the stream or its flow is missing or when length > 0 and no body is
\* expected, and not otherwise: an empty DATA frame on an existing stream and
\* flow is refused without them.
C8_DataFrame ==
    \A e \in Entries :
       e.type = FT_DATA =>
          /\ e.cut <=> (StreamReady(e) /\ e.env.body_expected
                        /\ e.length > 0 /\ e.length <= MAX_OCTETS)
          /\ ~e.cut => e.status = "ABORT"
          /\ e.length = 0 => e.status = "ABORT"
          /\ Recorded(e, "EVENT_FRAME_SEQUENCE", "INF_FRAME_SEQUENCE") <=>
                (~StreamReady(e) \/ (e.length > 0 /\ ~e.env.body_expected))

\* a DATA frame of exactly MAX_OCTETS went to the cutter
C8_Witness ==
    /\ call.op = "scan" /\ call.log # << >>
    /\ LastEntry.type = FT_DATA /\ LastEntry.cut
    /\ LastEntry.length = MAX_OCTETS
    /\ session_data.mid_data_frame

\* C9 as stated: a scan call with an empty chunk returns Search and leaves
\* every field of the session as it was, num_frame_headers, the octet
\* counters and total_bytes_in_split included.
C9_EmptyChunk ==
    [][ \A env \in Envs :
          ScanCounted(0, env) =>
             (call'.status = "SEARCH" /\ session_data' = session_data) ]_vars

\* ---- the stream layer's byte accounting
\* all bytes the peer has delivered, and those of them no call has taken
Delivered == acct.consumed + Len(wire)
UnreadTail == Len(wire)

\* C10 as stated: the flush offsets returned so far and the bytes not yet
\* flushed add up to the bytes delivered.
C10_Original ==
    acct.flushed_sum + Len(buffered) + UnreadTail = Delivered

\* C10: every flush offset lies within its chunk, and the flush offsets
\* returned so far, the bytes of the chunks that returned Search and were
\* flushed by a later call, the bytes scanned since the last Flush and the
\* unread tail add up to the bytes delivered.
C10_FlushAccounting ==
    /\ (call.op = "scan" /\ call.status = "FLUSH") =>
          /\ pdu_total = Len(pdu)
          /\ call.flush_offset <= Len(pdu)
    /\ acct.flushed_sum + acct.carried + Len(buffered) + UnreadTail = Delivered

\* two PDUs were flushed, each with bytes of an earlier chunk; a frame is
\* left unread
C10_Witness ==
    /\ call.op = "scan" /\ call.status = "FLUSH"
    /\ acct.carried > preface_length
    /\ acct.flushed_sum > 0
    /\ UnreadTail > 0

\* ---- reassembly
\* C11 as stated: after every reassemble call the two write cursors are
\* within the sizes the buffers were allocated with.
C11_WithinBuffers ==
    call.op = "reassemble" =>
       /\ ~UGt(session_data.frame_header_offset, session_data.frame_header_size)
       /\ ~UGt(session_data.frame_data_offset, session_data.frame_data_size)

\* the payload of the frame at the head of bytes without what its own PADDED
\* flag marks: the pad-length byte and the padding it announces
OwnPayload(bytes) ==
    LET L == get_frame_length(bytes)
        P == SubSeq(bytes, FRAME_HEADER_LENGTH + 1, FRAME_HEADER_LENGTH + L)
    IN IF ~HasFlag(get_frame_flags(bytes), PADDED) THEN P
       ELSE IF L = 0 THEN << >>
       ELSE SubSeq(P, 2, L - P[1])

\* the same for all the frames that make up bytes
RECURSIVE StrippedPayload(_)
StrippedPayload(bytes) ==
    IF Len(bytes) < FRAME_HEADER_LENGTH THEN << >>
    ELSE OwnPayload(bytes) \o
         StrippedPayload(Drop(bytes, FRAME_HEADER_LENGTH + get_frame_length(bytes)))

\* the call that takes the last k bytes of the PDU
LastPart(k, uninit) ==
    ReassemblePart(k, uninit) /\ pdu_offset + k = Len(pdu)

\* C12 as stated: when the last reassemble call of a non-DATA PDU returns,
\* frame_data holds the payload of its frames without the pad-length byte and
\* the padding of the frames whose own header has PADDED, and all of the
\* payload of the others.
C12_PaddingElided ==
    [][ \A k \in 1..Len(pdu), u \in UninitBytes :
          LastPart(k, u) => session_data'.frame_data = StrippedPayload(pdu) ]_vars

\* C13 as stated: when the last reassemble call of a non-DATA PDU returns,
\* frame_header_size is 9 times the headers the scanner counted,
\* frame_data_size is the PDU without headers, pad-length bytes and padding,
\* and frame_data_offset has reached it.
C13_Sizes ==
    [][ \A k \in 1..Len(pdu), u \in UninitBytes :
          LastPart(k, u) =>
             /\ session_data'.frame_header_size =
                   FRAME_HEADER_LENGTH * session_data.num_frame_headers
             /\ session_data'.frame_data_size = Len(StrippedPayload(pdu))
             /\ session_data'.frame_data_offset = session_data'.frame_data_size
      ]_vars

\* C14: a reassemble call without PDU_TAIL returns a null buffer; the call
\* with PDU_TAIL returns a buffer that is not null and leaves
\* total_bytes_in_split, num_frame_headers and scan_octets_seen at 0.
C14_Tail ==
    call.op = "reassemble" =>
       /\ call.buf_null <=> pdu # << >>
       /\ pdu = << >> =>
             /\ session_data.total_bytes_in_split = 0
             /\ session_data.num_frame_headers = 0
             /\ session_data.scan_octets_seen = 0

\* a PDU of two frames was reassembled in more than one call and the last
\* call has returned
C14_Witness ==
    /\ call.op = "reassemble" /\ ~call.buf_null /\ pdu = << >>
    /\ session_data.frame_header_size = 2 * FRAME_HEADER_LENGTH
    /\ session_data.frame_header_offset = session_data.frame_header_size
    /\ pdu_offset = pdu_total
    /\ session_data.num_frame_headers = 0


\* ------------------------------------------------ UTF-16BE: the reference
\* the 16-bit units of a big-endian byte sequence of even length
RECURSIVE Units(_)
Units(bytes) ==
    IF Len(bytes) < 2 THEN << >>
    ELSE << bytes[1] * 256 + bytes[2] >> \o Units(Drop(bytes, 2))

IsHighSurrogate(w) == 55296 <= w /\ w <= 56319
IsLowSurrogate(w) == 56320 <= w /\ w <= 57343

\* no lone surrogate: every unit is outside D800..DFFF or belongs to a pair
RECURSIVE NoLoneSurrogate(_)
NoLoneSurrogate(units) ==
    IF units = << >> THEN TRUE
    ELSE IF ~IsHighSurrogate(units[1]) /\ ~IsLowSurrogate(units[1])
    THEN NoLoneSurrogate(Tail(units))
    ELSE /\ IsHighSurrogate(units[1])
         /\ Len(units) >= 2
         /\ IsLowSurrogate(units[2])
         /\ NoLoneSurrogate(Drop(units, 2))

\* RFC 2781, 2.2: the code points of a sequence of units without lone
\* surrogates
RECURSIVE Rfc2781(_)
Rfc2781(units) ==
    IF units = << >> THEN << >>
    ELSE IF ~IsHighSurrogate(units[1])
    THEN << units[1] >> \o Rfc2781(Tail(units))
    ELSE << (units[1] % 1024) * 1024 + (units[2] % 1024) + 65536 >>
         \o Rfc2781(Drop(units, 2))

\* RFC 3629: the UTF-8 form of a code point up to 0x10FFFF
Utf8(c) ==
    IF c < 128 THEN << c >>
    ELSE IF c < 2048 THEN << 192 + (c \div 64), 128 + (c % 64) >>
    ELSE IF c < 65536
    THEN << 224 + (c \div 4096), 128 + ((c \div 64) % 64), 128 + (c % 64) >>
    ELSE << 240 + (c \div 262144), 128 + ((c \div 4096) % 64),
            128 + ((c \div 64) % 64), 128 + (c % 64) >>

RECURSIVE Utf8All(_)
Utf8All(cs) == IF cs = << >> THEN << >> ELSE Utf8(cs[1]) \o Utf8All(Tail(cs))

\* the bytes fed so far are whole units without lone surrogates
WellFormedFed ==
    /\ Len(lexed.fed) % 2 = 0
    /\ NoLoneSurrogate(Units(lexed.fed))

\* C15 as stated: whenever the bytes fed to u16_eval since construction are
\* a UTF-16BE sequence without lone surrogates, the output is the UTF-8 form
\* of the code points RFC 2781 decodes from them.
C15_Utf16ToUtf8 ==
    (lexed.tok = "u16" /\ WellFormedFed)
        => tokenizer.yyout = Utf8All(Rfc2781(Units(lexed.fed)))

\* the units the automaton has been given, as it frames them: a unit of
\* 0xd800 or more opens a pair, whatever the unit after it is
RECURSIVE AwaitsLow(_)
AwaitsLow(units) ==
    IF units = << >> THEN FALSE
    ELSE IF units[1] < 55296 THEN AwaitsLow(Tail(units))
    ELSE IF Len(units) = 1 THEN TRUE
    ELSE AwaitsLow(Drop(units, 2))

\* the byte fed last completed the unit after a unit taken as high surrogate
SecondUnit ==
    /\ Len(lexed.fed) % 2 = 0
    /\ lexed.fed # << >>
    /\ AwaitsLow(Units(Take(lexed.fed, Len(lexed.fed) - 2)))

LastUnit == lexed.fed[Len(lexed.fed) - 1] * 256 + lexed.fed[Len(lexed.fed)]

C18_DictClose ==
    lexed.tok = "dict_close" =>
       (lexed.ret = INCOMPLETE_ARRAY_IN_DICTIONARY
           <=> tokenizer.obj_array.nesting_level # lexed.own)

\* the array level at which the '<<' of the innermost open dictionary was
\* read
OwnLevel == lexed.opened[Len(lexed.opened)]

\* the last token left key_value as it was, flipped it
Kept == tokenizer.obj_dictionary.key_value = lexed.before.obj_dictionary.key_value
Flipped == tokenizer.obj_dictionary.key_value = ~lexed.before.obj_dictionary.key_value
SameKey == tokenizer.obj_entry.key = lexed.before.obj_entry.key

\* C19 as stated: a token read at the dictionary's own array level is taken
\* as key or value in turn: a name in key position becomes obj_entry.key,
\* any other token in key position returns NotNameInDictionaryKey, every
\* accepted token flips key_value once; a token read at another array level
\* flips nothing and returns no error.
C19_KeyValue ==
    (lexed.tok \in { "name", "other" } /\ lexed.opened # << >>) =>
       IF tokenizer.obj_array.nesting_level = OwnLevel
       THEN IF lexed.before.obj_dictionary.key_value
            THEN IF lexed.tok = "name"
                 THEN /\ lexed.ret = EOS
                      /\ tokenizer.obj_entry.key = lexed.yytext
                      /\ Flipped
                 ELSE lexed.ret = NOT_NAME_IN_DICTIONARY_KEY /\ Kept
            ELSE lexed.ret = EOS /\ Flipped /\ SameKey
       ELSE lexed.ret = EOS /\ Kept /\ SameKey

\* --------------------------------------------------------- PDF streams
\* C20: the 'stream' keyword in an indirect object returns StreamNoLength
\* and enters no start condition while obj_stream.rem_length < 0; with
\* rem_length >= 0 it returns no error and enters the UTF-16 probe when
\* is_js is set, the non-JS stream condition otherwise.
C20_StreamOpen ==
    lexed.tok = "stream_open" =>
       IF lexed.before.obj_stream.rem_length < 0
       THEN /\ lexed.ret = STREAM_NO_LENGTH
            /\ tokenizer.yy_start_stack = lexed.before.yy_start_stack
       ELSE /\ lexed.ret = EOS
            /\ tokenizer.yy_start_stack =
                  Append(lexed.before.yy_start_stack,
                         IF lexed.before.obj_stream.is_js THEN "u16" ELSE "stream")

\* the stream of an object that a /JS entry refers to, its length known
C20_Witness ==
    /\ lexed.tok = "stream_open"
    /\ lexed.ret = EOS
    /\ lexed.before.obj_stream.rem_length = 2
    /\ lexed.before.obj_stream.is_js
    /\ YY_START(lexed.before) = "indobj"
    /\ YY_START(tokenizer) = "u16"


\* ------------------------------------------------ the scanner's invariants
\* C25 as stated: between scan calls scan_octets_seen is below 9.
C25_Original == session_data.scan_octets_seen < FRAME_HEADER_LENGTH

\* a frame whose header is complete is still being scanned: payload of a
\* non-DATA frame or of a DATA frame is outstanding
FramePending ==
    session_data.scan_remaining_frame_octets > 0 \/ session_data.mid_data_frame

\* C25: between scan calls scan_octets_seen counts the bytes of the preface
\* seen so far, fewer than 24, while the preface is awaited; afterwards it
\* counts the bytes of the frame header seen so far, 9 at most, and it is 9
\* only while the payload of that frame is outstanding or after the scan
\* that read the header returned Abort.
C25_OctetsSeen ==
    /\ session_data.scan_octets_seen >= 0
    /\ session_data.preface => session_data.scan_octets_seen < preface_length
    /\ ~session_data.preface =>
          /\ session_data.scan_octets_seen <= FRAME_HEADER_LENGTH
          /\ session_data.scan_octets_seen = FRAME_HEADER_LENGTH
                => (FramePending \/ aborted)

\* the header of a HEADERS frame is complete and its payload is not: Search,
\* with nine octets seen
C25_Witness ==
    /\ call.op = "scan" /\ call.status = "SEARCH"
    /\ ~session_data.preface
    /\ session_data.scan_octets_seen = FRAME_HEADER_LENGTH
    /\ session_data.scan_remaining_frame_octets > 0
    /\ ~aborted


\* C26: mid_data_frame and continuation_expected are never both true: while
\* a HEADERS frame without END_HEADERS awaits its CONTINUATION, no DATA
\* frame is accepted and handed to the DataCutter.
C26_Exclusive ==
    /\ ~(session_data.mid_data_frame /\ session_data.continuation_expected)
    /\ \A i \in 1..Len(call.log) :
          ~(call.log[i].type = FT_DATA /\ call.log[i].ce /\ call.log[i].cut)


\* C29: every PDU of non-DATA frames that scan flushes, a HEADERS frame
\* aggregated with its CONTINUATION frames included, has
\* total_bytes_in_split <= MAX_OCTETS, so that the total handed to
\* reassemble satisfies its assertion.
C29_SplitFits ==
    (call.op = "scan" /\ call.status = "FLUSH" /\ ~sent.data) =>
        /\ session_data.total_bytes_in_split <= MAX_OCTETS
        /\ pdu_total <= MAX_OCTETS


\* ------------------------------------------- independence of segmentation
\* the absolute stream offset the scanner has got to
Offset == acct.consumed

\* the offset of the previous flush (the bytes since then are kept)
PreviousFlush ==
    IF call.status = "FLUSH" THEN Offset - pdu_total ELSE Offset - Len(buffered)

RefFlushes == { sent.ref.flushes[i] : i \in 1..Len(sent.ref.flushes) }

\* every flush is one of the whole-stream run, with the same counters
SameFlush ==
    (call.op = "scan" /\ call.status = "FLUSH") =>
        FlushRecord(session_data, Offset) \in RefFlushes

\* no flush of the whole-stream run is passed over
NoFlushMissed ==
    call.op = "scan" =>
        \A f \in RefFlushes :
            ~(f.at > PreviousFlush /\ f.at <= Offset
                /\ (call.status = "FLUSH" => f.at < Offset))

SameVerdict ==
    /\ aborted => sent.ref.aborted
    /\ (wire = << >> /\ ~aborted) => ~sent.ref.aborted
    /\ (aborted \/ wire = << >>) => session_data.events = sent.ref.events

HeaderIncomplete ==
    ~session_data.preface /\ session_data.scan_octets_seen \in 1..(FRAME_HEADER_LENGTH - 1)

\* C30: for a stream of non-DATA frames delivered in non-empty chunks, the
\* flush points as absolute offsets, num_frame_headers, total_bytes_in_split
\* and the events at each flush, and the final verdict and events are those
\* of the run that is given the whole stream at once; a scan that leaves a
\* frame header incomplete returns Search.
C30_Segmentation ==
    /\ SameFlush
    /\ NoFlushMissed
    /\ SameVerdict
    /\ (call.op = "scan" /\ HeaderIncomplete) => call.status = "SEARCH"


\* a HEADERS frame and its CONTINUATION are flushed as one PDU after an
\* earlier flush; the bytes came in several chunks, the last of which
\* brought only the end of the CONTINUATION
C30_Witness ==
    /\ call.op = "scan" /\ call.status = "FLUSH"
    /\ session_data.num_frame_headers = 2
    /\ Len(call.log) = 1
    /\ call.flush_offset < pdu_total
    /\ Offset > pdu_total
    /\ Len(sent.ref.flushes) >= 2


\* ---------------------------------------------------- JavaScript streams
\* C21: when object n opens, obj_stream.is_js is whether n is among the
\* objects referenced so far under the key /JS; a stream is taken as
\* JavaScript only in an object that is among them, also when the object
\* follows one that is.
C21_IsJs ==
    /\ (lexed.tok = "ind_obj_open") =>
          (tokenizer.obj_stream.is_js <=> lexed.obj \in tokenizer.js_stream_refs)
    /\ In({ "u16", "jsstream", "jsstreamu16" }) =>
          lexed.obj \in tokenizer.js_stream_refs


\* the last token closed a stream that was read as JavaScript
JsStreamClosed ==
    /\ lexed.tok = "stream_close" /\ lexed.closed
    /\ YY_START(lexed.before) \in { "jsstream", "jsstreamu16" }

\* the body as the output is to hold it: the bytes themselves, or the UTF-8
\* form of the UTF-16BE units behind the BOM
DecodedBody ==
    IF lexed.bom THEN Utf8All(Rfc2781(Units(lexed.body))) ELSE lexed.body

\* C22: when a JavaScript stream closes, the output has received the
\* decoded body followed by one line feed, for an 8-bit body and for one
\* that begins with the UTF-16BE BOM (whole units, no lone surrogates).  The
\* bodies are those without an 'EOL endstream' before the closing one.
C22_BodyThenNewline ==
    (JsStreamClosed /\ ~lexed.early /\ Len(lexed.body) % 2 = 0
        /\ (lexed.bom => NoLoneSurrogate(Units(lexed.body)))) =>
        tokenizer.yyout = lexed.out0 \o DecodedBody \o << 10 >>


\* what the rule for body bytes makes of the text just matched
AsBody ==
    rule_stream_skip(lexed.before, build.u16_bits, lexed.text).t

\* C27: every piece matched in a stream is subtracted from rem_length; an
\* 'EOL endstream' closes the stream iff rem_length minus its length is 0
\* or less; one that does not close it is, in a JavaScript stream (8-bit or
\* UTF-16BE), emitted as the body bytes are.
C27_EarlyEndstream ==
    /\ lexed.tok \in { "stream_skip", "stream_close" } =>
          tokenizer.obj_stream.rem_length
              = lexed.before.obj_stream.rem_length - Len(lexed.text)
    /\ lexed.tok = "stream_close" =>
          (lexed.closed <=>
              lexed.before.obj_stream.rem_length - Len(lexed.text) <= 0)
    /\ (lexed.tok = "stream_close" /\ ~lexed.closed
          /\ YY_START(lexed.before) \in { "jsstream", "jsstreamu16" }) =>
          /\ tokenizer.yyout = AsBody.yyout
          /\ tokenizer.u16_state = AsBody.u16_state

\* C28: the UTF-16 probe leaves the start condition stack as it found it:
\* when the stream closes, the stack is the one 'stream' was read with, its
\* top indobj, so that 'endobj' closes the object.
C28_StackNeutral ==
    (lexed.tok = "stream_close" /\ lexed.closed) =>
        /\ tokenizer.yy_start_stack = lexed.stack0
        /\ In({ "indobj" })


\* ------------------------------------------------------ hexadecimal strings
RECURSIVE HexDigits(_)
HexDigits(content) ==
    IF content = << >> THEN << >>
    ELSE (IF IsHexDigit(content[1]) THEN << content[1] >> ELSE << >>)
         \o HexDigits(Tail(content))

\* the digits decoded in pairs, a last single digit as the high nibble
HexDecoded(digits) ==
    hex_pairs(digits)
      \o IF Len(digits) % 2 = 1
         THEN << HexValue(digits[Len(digits)]) * 16 >> ELSE << >>

\* C23: the bytes emitted for a JavaScript hexadecimal string are those of
\* its hexadecimal digits, all other bytes removed, decoded in pairs, with
\* the last digit of an odd total as the high nibble, wherever the other
\* bytes fall.
C23_HexString ==
    lexed.tok = "hex_close" =>
        tokenizer.yyout = HexDecoded(HexDigits(lexed.content))


\* ---------------------------------------------------------- object values
\* C24: reading a well-formed object 'n g obj value endobj', whatever PDF
\* object the value is, yylex does not return UNEXPECTED_SYMBOL.
C24_AnyValue == lexed.ret # UNEXPECTED_SYMBOL


\* ------------------------------------------------- counters at a flush
\* the frame headers in the bytes of a PDU: one at the start and one behind
\* every frame
RECURSIVE HeadersIn(_)
HeadersIn(bytes) ==
    IF Len(bytes) < FRAME_HEADER_LENGTH THEN 0
    ELSE 1 + HeadersIn(Drop(bytes, FRAME_HEADER_LENGTH
                                      + get_frame_length(Take(bytes, FRAME_HEADER_LENGTH))))

\* scan has just flushed a PDU of non-DATA frames
FramesFlushed ==
    /\ call.op = "scan" /\ call.status = "FLUSH"
    /\ ~session_data.payload_discard
    /\ ~sent.data

\* C31: when scan flushes a PDU of non-DATA frames, num_frame_headers is the
\* number of frame headers in the bytes accumulated since the previous flush
\* and total_bytes_in_split is the number of those bytes, however the frames
\* were split across chunks.
C31_Counters ==
    FramesFlushed =>
        /\ session_data.num_frame_headers = HeadersIn(pdu)
        /\ session_data.total_bytes_in_split = pdu_total
        /\ pdu_total = Len(pdu)


\* ------------------------------------------------------- clear_frame_data
\* the buffer buf of direction k was released and its pointer is null
Freed(buf, k) ==
    /\ session_data[buf][k] = 0
    /\ call.before[buf][k] \notin session_data.heap

\* direction k is as it was before the call
Untouched(k) ==
    /\ \A buf \in Buffers : session_data[buf][k] = call.before[buf][k]
    /\ session_data.continuation_expected[k] = call.before.continuation_expected[k]
    /\ session_data.frames_aggregated[k] = call.before.frames_aggregated[k]
    /\ session_data.scan_header_octets_seen[k]
          = call.before.scan_header_octets_seen[k]
    /\ session_data.leftover_data[k] = call.before.leftover_data[k]
    /\ \A buf \in Buffers :
          call.before[buf][k] # 0 => call.before[buf][k] \in session_data.heap

\* C32: clear_frame_data(source_id) frees and nulls frame_data,
\* raw_decoded_header, header_start_line and http2_decoded_header of that
\* direction and resets its continuation_expected, frames_aggregated and
\* scan_header_octets_seen; frame_header is freed and nulled only when the
\* direction's leftover_data is 0 and is left alone otherwise; nothing of the
\* other direction changes, no allocation is released twice, and a second
\* call changes nothing more.
C32_ClearFrameData ==
    /\ ~session_data.double_free
    /\ call.op = "clear_frame_data" =>
          /\ \A buf \in Buffers \ { "frame_header" } : Freed(buf, call.k)
          /\ ~session_data.continuation_expected[call.k]
          /\ session_data.frames_aggregated[call.k] = 0
          /\ session_data.scan_header_octets_seen[call.k] = 0
          /\ IF call.before.leftover_data[call.k] = 0
             THEN Freed("frame_header", call.k)
             ELSE /\ session_data.frame_header[call.k]
                        = call.before.frame_header[call.k]
                  /\ call.before.frame_header[call.k] # 0 =>
                        call.before.frame_header[call.k] \in session_data.heap
          /\ Untouched(1 - call.k)
          /\ clear_frame_data(session_data, call.k) = session_data

\* the call found every buffer of both directions allocated, the flags set
\* and data left over: frame_header stays
C32_Witness ==
    /\ call.op = "clear_frame_data"
    /\ call.before.leftover_data[call.k] # 0
    /\ \A buf \in Buffers, k \in Sources : call.before[buf][k] # 0
    /\ call.before.continuation_expected[1 - call.k]
    /\ session_data.frame_header[call.k] # 0
    /\ session_data.frame_data[call.k] = 0


\* ------------------------------------------------ start-condition stack
\* the start condition the probe was pushed on
BelowProbe == YY_START(POP(lexed.before))

\* C33: whatever the input, yy_pop_state never finds the start-condition
\* stack empty and no assertion of the UTF-16 probe handlers fails: when
\* h_u16_start or h_u16_break runs the start condition below u16 is jslstr
\* or indobj, when h_u16_hex_start or h_u16_hex_break runs the one below
\* u16hex is jshstr.
C33_StackSafe ==
    /\ ~lexed.fatal
    /\ ~lexed.asserted
    /\ Len(tokenizer.yy_start_stack) >= 1
    /\ lexed.tok \in { "u16_bom", "u16_break" } =>
          BelowProbe \in { "jslstr", "indobj" }
    /\ lexed.tok \in { "u16_hex_bom", "u16_hex_break" } => BelowProbe = "jshstr"

\* the BOM was found at the start of a literal string of a dictionary of
\* an object: jslstr gave way to jsstru16
C33_Witness ==
    /\ lexed.tok = "u16_bom"
    /\ BelowProbe = "jslstr"
    /\ tokenizer.yy_start_stack = << "INITIAL", "indobj", "dictnr", "jsstru16" >>


\* ------------------------------------------------------------ reap cycles
FreeSpaceCalled == memory_cap.last.op = "free_space"
CycleStarted ==
    /\ FreeSpaceCalled
    /\ memory_cap.mc.reap_cycles > memory_cap.last.before.mc.reap_cycles

\* a cycle is started only over the limit and in another epoch than the
\* cycle before
StartsOnlyOverLimit ==
    CycleStarted =>
        /\ memory_cap.last.before.over_limit
        /\ memory_cap.last.before.current_epoch # memory_cap.last.before.cycle.epoch

\* a call during a cycle: the bytes freed since the call before are added to
\* pruned; the cycle ends without the pruner if the target is reached, the
\* pruner is called and counted otherwise
InCycle ==
    (FreeSpaceCalled /\ memory_cap.last.before.cycle.on) =>
        /\ memory_cap.mc.pruned
              = memory_cap.last.before.mc.pruned + memory_cap.last.freed
        /\ IF memory_cap.mc.deallocated - memory_cap.last.before.cycle.start
                 >= memory_cap.prune_target
           THEN memory_cap.last.path = "ended" /\ ~memory_cap.cycle.on
           ELSE /\ memory_cap.last.path = "pruned"
                /\ memory_cap.mc.reap_attempts
                      = memory_cap.last.before.mc.reap_attempts + 1
                /\ memory_cap.mc.reap_failures
                      = memory_cap.last.before.mc.reap_failures
                           + (IF memory_cap.last.ok THEN 0 ELSE 1)

\* outside a cycle and under the limit the pruner is not called
IdleUnderLimit ==
    (/\ FreeSpaceCalled
     /\ ~memory_cap.last.before.cycle.on
     /\ ~memory_cap.last.before.over_limit) => memory_cap.last.path # "pruned"

\* C34: on a packet thread free_space starts a reap cycle only when
\* over_limit is set and the epoch differs from the one the thread's cycle
\* before was started in; once a cycle is started every later call, over the
\* limit or not, adds the newly deallocated bytes to pruned and calls the
\* pruner (a reap attempt, and a reap failure if it returns false) until the
\* bytes deallocated since the start reach prune_target, at which call the
\* cycle ends without the pruner; outside a cycle and under the limit the
\* pruner is never called.
C34_ReapCycle == StartsOnlyOverLimit /\ InCycle /\ IdleUnderLimit

====
